---- MODULE Spec2Model ----
(***************************************************************************)
(* A model of the chimera tunnel: the encrypted record session             *)
(* (chimera_core/src/handshake.rs over chimera_transport/src/tcp.rs), the  *)
(* two mux proxy engines (client_proxy.rs, server_proxy.rs), the tunnel    *)
(* supervisors (bin/client.rs, lib.rs) and the path scorer (chimera_ai).   *)
(***************************************************************************)
EXTENDS Integers, Sequences, FiniteSets, TLC

(***************************************************************************)
(* Bounds of the model.                                                    *)
(***************************************************************************)
\* number of EncryptedConnection::send calls explored on one end
MaxSends == 2

(***************************************************************************)
(* Program constants.                                                      *)
(***************************************************************************)
\* TcpConnection::recv reads into a fresh 1024-byte buffer
RecvBufSize == 1024
\* ChaCha20-Poly1305 appends a 16-byte tag (seal_in_place_append_tag)
TagLen == 16
\* the u32 length prefix of a record
LenPrefix == 4

(***************************************************************************)
(* Session layer state (one direction of one established session).         *)
(***************************************************************************)
VARIABLES
    seq_out,      \* sender's EncryptedConnection.seq_out
    sent,         \* history: the plaintexts passed to send, in call order
    wire,         \* bytes written to the transport and not yet read by the peer
    wclosed,      \* the sending end has closed the transport
    lossy,        \* the transport did not deliver the bytes as written
    buffer,       \* receiver's EncryptedConnection.buffer
    seq_in,       \* receiver's EncryptedConnection.seq_in
    rpc,          \* receiver's position inside recv(): "idle", "parse", "await"
    returned,     \* history: the plaintexts recv returned with Ok(Some(_))
    rlast,        \* outcome of the last completed recv call
    chunking      \* history: which transport chunkings have been seen

sessVars == <<seq_out, sent, wire, wclosed, lossy, buffer, seq_in, rpc,
              returned, rlast, chunking>>

(***************************************************************************)
(* Tunnel state: the client process, the server process, the session       *)
(* between them, the local applications and the dialed destinations.       *)
(***************************************************************************)
VARIABLES
    paths,        \* Router.paths: name -> [latency (microseconds), loss (millionths)]
    csup,         \* client main: "attempt", "data", "hf_send", "exited"
    csupf,        \* the frame client handle_frame is sending while it is suspended
    session,      \* number of tunnel sessions established so far
    link,         \* the current session's transport: "none", "up", "down"
    serverUp,     \* the server is reachable over TCP
    next_id,      \* ClientProxy.next_id
    acc,          \* the SOCKS accept loop: [pc, id] inside start_new_stream
    c_streams,    \* ClientProxy.streams: the ids that have a sender in the map
    c_mutex,      \* holder of the ClientProxy.streams mutex: "none" or "sup"
    c_tunnel,     \* the client's tunnel_tx/tunnel_rx channel (frames)
    cs,           \* client stream tasks, by id
    loc,          \* local application sockets, by id
    c2s,          \* records (one frame each) in flight, client to server
    s2c,          \* records in flight, server to client
    ssup,         \* server handle_connection: "none", "data", "hf_send", "ended"
    ssupf,        \* the frame server handle_frame is sending while it is suspended
    s_tunnel,     \* the server session's tx/rx channel (frames)
    ss,           \* server stream tasks, by id
    dst,          \* destination sockets, by id
    env           \* what the environment may still do (remaining events)

supVars == <<paths, csup, csupf, session, link, serverUp>>
cliVars == <<next_id, acc, c_streams, c_mutex, c_tunnel, cs, loc>>
srvVars == <<c2s, s2c, ssup, ssupf, s_tunnel, ss, dst>>
muxVars == <<supVars, cliVars, srvVars, env>>

\* The mux frame codec applied to one frame (protocol.rs)
VARIABLES
    cin,         \* the frame given to to_bytes
    cbuf,        \* the buffer given to check and to parse
    cres         \* what check and parse returned

\* A supervisor's receive loop (lib.rs handle_connection, bin/client.rs)
VARIABLES
    rside,       \* "client" or "server"
    rframes,     \* the frames the peer has sent on the session
    rwire,       \* their bytes not yet returned by the session's recv
    rbuf,        \* the accumulation buffer
    rdisp,       \* the frames handed to handle_frame, in order
    rstat        \* "running", or "ended" once the loop has been left

\* A history of the calls made on a Router (chimera_ai)
VARIABLES
    slast,       \* the last call: its name, its argument and what it returned
    sfailed,     \* paths with a report_failure and no update_latency since
    sreg,        \* paths registered again since their last report_failure
    sevents      \* number of calls made

\* The client process and the shutdown signal (bin/client.rs, system.rs)
VARIABLES
    shut,        \* "running", "returned" (main returned), "killed"
    sysproxy,    \* the system SOCKS proxy setting is on
    sigints      \* number of SIGINTs delivered

scorerVars == <<slast, sfailed, sreg, sevents>>

shutVars == <<shut, sysproxy, sigints>>

\* The server's accept side (ChimeraNode::run_server)
VARIABLES
    sconn,       \* raw connection -> its state, its peer, how it ended
    acceptq      \* the mpsc channel from the listener tasks to the main loop

acceptVars == <<sconn, acceptq>>

\* HttpMimic calls (mimic.rs)
VARIABLES
    mcall,       \* the last call: encapsulate of a key, or a foreign packet
    mtext,       \* the packet given to decapsulate
    mres         \* what decapsulate returned

mimicVars == <<mcall, mtext, mres>>

\* One handshake between a client-role and a server-role endpoint
\* (EncryptedConnection::new on both ends of one transport connection)
VARIABLES
    hcli,        \* the client-role endpoint
    hsrv,        \* the server-role endpoint
    hc2s,        \* bytes in the transport from client to server
    hs2c         \* bytes in the transport from server to client

hsVars == <<hcli, hsrv, hc2s, hs2c>>

\* The connection attempts of the client's reconnection loop, step by step
VARIABLES
    attempt,     \* main's attempt counter
    aphase,      \* "select", "connect", "handshake", "sleep" or "data"
    chosen,      \* best_path_name of the current attempt
    tries,       \* attempts started since the start of main
    feedback     \* the router calls made by the current attempt, in order

loopVars == <<attempt, aphase, chosen, tries, feedback>>

\* history: the frames a remote peer has put on the tunnel out of turn
VARIABLE injected

hostVars == <<shutVars, acceptVars, mimicVars, hsVars, loopVars, injected>>

frameVars == <<cin, cbuf, cres, rside, rframes, rwire, rbuf, rdisp, rstat, scorerVars, hostVars>>

vars == <<sessVars, muxVars, frameVars>>

(***************************************************************************)
(* Bytes.                                                                  *)
(***************************************************************************)
RECURSIVE SumSeq(_)
SumSeq(s) == IF s = <<>> THEN 0 ELSE Head(s) + SumSeq(Tail(s))

Min(a, b) == IF a < b THEN a ELSE b

\* BufMut::put_u32: four bytes, big-endian
PutU32(n) == << (n \div 16777216) % 256, (n \div 65536) % 256,
                (n \div 256) % 256, n % 256 >>

\* Buf::get_u32 on the head of a buffer of at least four bytes
GetU32(b) == b[1] * 16777216 + b[2] * 65536 + b[3] * 256 + b[4]

\* BytesMut::split_to(n) returns the head, the buffer keeps the rest
TakeBytes(b, n) == SubSeq(b, 1, n)
DropBytes(b, n) == SubSeq(b, n + 1, Len(b))

(***************************************************************************)
(* Cipher (chimera_crypto).  The AEAD is used as a black box: a keystream  *)
(* and a tag that both depend on the nonce, which is the sequence number.  *)
(***************************************************************************)
\* a nonce that does not depend on the sequence number
CreateNonceFixed(seq) == 0

\* Cipher::create_nonce: the 12-byte nonce is LE64(seq) padded with zeros, so
\* it is determined by, and determines, the sequence number
CreateNonce(seq) == seq

Keystream(nonce, i) == (nonce * 7 + i * 13 + 1) % 256

SealBody(nonce, data) ==
    [i \in 1..Len(data) |-> (data[i] + Keystream(nonce, i)) % 256]

OpenBody(nonce, body) ==
    [i \in 1..Len(body) |-> (body[i] + 256 - Keystream(nonce, i)) % 256]

Tag(nonce, body) ==
    [j \in 1..TagLen |-> (SumSeq(body) + 31 * nonce + j) % 256]

\* Cipher::encrypt: data followed by the tag
Encrypt(seq, data) ==
    LET body == SealBody(CreateNonce(seq), data)
    IN  body \o Tag(CreateNonce(seq), body)

\* a decrypt that does not verify the tag
DecryptOkAlways(seq, chunk) == Len(chunk) >= TagLen

\* Cipher::decrypt succeeds only when the tag verifies under the nonce
DecryptOk(seq, chunk) ==
    /\ Len(chunk) >= TagLen
    /\ LET body == TakeBytes(chunk, Len(chunk) - TagLen)
       IN  DropBytes(chunk, Len(chunk) - TagLen) = Tag(CreateNonce(seq), body)

\* the plaintext (chunk truncated to the decrypted length)
Decrypt(seq, chunk) ==
    OpenBody(CreateNonce(seq), TakeBytes(chunk, Len(chunk) - TagLen))

(***************************************************************************)
(* EncryptedConnection::send / recv.                                       *)
(***************************************************************************)
\* the plaintext records explored
Plain == { <<>>, <<1>>, <<2, 1>> }

\* send's framing: [Length: u32][Encrypted Data]
FrameRecord(encrypted) == PutU32(Len(encrypted)) \o encrypted

\* the record send(data) writes when seq_out = seq
SendRecord(seq, data) == FrameRecord(Encrypt(seq, data))

\* recv step 1: a full packet is available in the buffer
FullPacket(b) ==
    /\ Len(b) >= LenPrefix
    /\ Len(b) >= LenPrefix + GetU32(b)

\* buffer.advance(4); buffer.split_to(len)
PacketChunk(b) == TakeBytes(DropBytes(b, LenPrefix), GetU32(b))
PacketRest(b) == DropBytes(DropBytes(b, LenPrefix), GetU32(b))

\* a receiver that keeps only the newest chunk
ExtendBufferLoses(b, chunk) == chunk

\* recv step 2: self.buffer.extend_from_slice(&chunk)
ExtendBuffer(b, chunk) == b \o chunk

\* the state EncryptedConnection::new leaves: both sequences 0, empty buffer
SessStart ==
    /\ seq_out = 0
    /\ sent = <<>>
    /\ wire = <<>>
    /\ wclosed = FALSE
    /\ lossy = FALSE
    /\ buffer = <<>>
    /\ seq_in = 0
    /\ rpc = "idle"
    /\ returned = <<>>
    /\ rlast = "none"
    /\ chunking = {}

\* EncryptedConnection::send(data): encrypt with seq_out, bump it, frame, and
\* hand the whole record to the transport (TcpConnection::send is write_all)
Send(data) ==
    /\ ~wclosed
    /\ Len(sent) < MaxSends
    /\ wire' = wire \o SendRecord(seq_out, data)
    /\ seq_out' = seq_out + 1
    /\ sent' = Append(sent, data)
    /\ UNCHANGED <<wclosed, lossy, buffer, seq_in, rpc, returned, rlast, chunking>>
    /\ UNCHANGED <<muxVars, frameVars>>

\* the sending end closes its transport after its last write
CloseSend ==
    /\ ~wclosed
    /\ wclosed' = TRUE
    /\ UNCHANGED <<seq_out, sent, wire, lossy, buffer, seq_in, rpc, returned,
                   rlast, chunking>>
    /\ UNCHANGED <<muxVars, frameVars>>

\* the connection dies with bytes in flight: the peer sees a shorter stream
TransportLoss ==
    /\ ~wclosed
    /\ wire # <<>>
    /\ \E k \in 0..(Len(wire) - 1) : wire' = TakeBytes(wire, k)
    /\ wclosed' = TRUE
    /\ lossy' = TRUE
    /\ UNCHANGED <<seq_out, sent, buffer, seq_in, rpc, returned, rlast, chunking>>
    /\ UNCHANGED <<muxVars, frameVars>>

\* a caller invokes recv()
RecvCall ==
    /\ rpc = "idle"
    /\ rlast \notin {"eof", "error"}
    /\ rpc' = "parse"
    /\ UNCHANGED <<seq_out, sent, wire, wclosed, lossy, buffer, seq_in,
                   returned, rlast, chunking>>
    /\ UNCHANGED <<muxVars, frameVars>>

\* recv, step 1 with a full packet: consume it, decrypt with seq_in, return
RecvPacket ==
    /\ rpc = "parse"
    /\ FullPacket(buffer)
    /\ buffer' = PacketRest(buffer)
    /\ IF DecryptOk(seq_in, PacketChunk(buffer))
       THEN /\ returned' = Append(returned, Decrypt(seq_in, PacketChunk(buffer)))
            /\ seq_in' = seq_in + 1
            /\ rlast' = "some"
       ELSE /\ rlast' = "error"
            /\ UNCHANGED <<returned, seq_in>>
    /\ rpc' = "idle"
    /\ UNCHANGED <<seq_out, sent, wire, wclosed, lossy, chunking>>
    /\ UNCHANGED <<muxVars, frameVars>>

\* recv, step 1 without a full packet: fall through to the transport read
RecvNeedMore ==
    /\ rpc = "parse"
    /\ ~FullPacket(buffer)
    /\ rpc' = "await"
    /\ UNCHANGED <<seq_out, sent, wire, wclosed, lossy, buffer, seq_in,
                   returned, rlast, chunking>>
    /\ UNCHANGED <<muxVars, frameVars>>

\* what a chunk did to the record at the head of the buffer
ChunkKind(b) ==
    IF ~FullPacket(b) THEN {"split"}
    ELSE IF PacketRest(b) # <<>> THEN {"merged"} ELSE {}

\* recv, step 2: inner.recv() yields between 1 and 1024 of the bytes in
\* flight, cut wherever the transport likes; they are appended to the buffer
RecvChunk ==
    /\ rpc = "await"
    /\ wire # <<>>
    /\ \E n \in 1..Min(Len(wire), RecvBufSize) :
          /\ buffer' = ExtendBuffer(buffer, TakeBytes(wire, n))
          /\ wire' = DropBytes(wire, n)
    /\ chunking' = chunking \cup ChunkKind(buffer')
    /\ rpc' = "parse"
    /\ UNCHANGED <<seq_out, sent, wclosed, lossy, seq_in, returned, rlast>>
    /\ UNCHANGED <<muxVars, frameVars>>

\* the None arm, returning Ok(None) whatever the buffer holds
EofResultLenient(buf) == "eof"

\* the None arm of the match on inner.recv()
EofResult(buf) == IF buf = <<>> THEN "eof" ELSE "error"

\* recv, step 2 at end of stream: Ok(None) on an empty buffer, else an error
RecvEof ==
    /\ rpc = "await"
    /\ wire = <<>>
    /\ wclosed
    /\ rlast' = EofResult(buffer)
    /\ rpc' = "idle"
    /\ UNCHANGED <<seq_out, sent, wire, wclosed, lossy, buffer, seq_in,
                   returned, chunking>>
    /\ UNCHANGED <<muxVars, frameVars>>

\* the caller's select! drops a pending recv future (another branch won)
RecvCancel ==
    /\ rpc = "await"
    /\ rpc' = "idle"
    /\ UNCHANGED <<seq_out, sent, wire, wclosed, lossy, buffer, seq_in,
                   returned, rlast, chunking>>
    /\ UNCHANGED <<muxVars, frameVars>>

SessNext ==
    \/ \E data \in Plain : Send(data)
    \/ CloseSend
    \/ TransportLoss
    \/ RecvCall
    \/ RecvPacket
    \/ RecvNeedMore
    \/ RecvChunk
    \/ RecvEof
    \/ RecvCancel

(***************************************************************************)
(* C1: on a transport that loses nothing, however it cuts the byte stream  *)
(* into chunks, successive recv calls return exactly the plaintexts passed *)
(* to send, in order and one record per call: what recv has returned is    *)
(* always the first seq_in plaintexts sent, no recv fails, and the bytes   *)
(* still buffered or in flight are exactly the records not yet returned.   *)
(***************************************************************************)
RECURSIVE RecordsFrom(_, _)
RecordsFrom(k, msgs) ==
    IF msgs = <<>> THEN <<>>
    ELSE SendRecord(k, Head(msgs)) \o RecordsFrom(k + 1, Tail(msgs))

RecordForRecord ==
    ~lossy =>
        /\ Len(returned) <= Len(sent)
        /\ returned = SubSeq(sent, 1, Len(returned))
        /\ seq_in = Len(returned)
        /\ rlast # "error"
        /\ buffer \o wire
             = RecordsFrom(seq_in, SubSeq(sent, Len(returned) + 1, Len(sent)))

\* every record sent has been returned, after the transport both split a
\* record across chunks and delivered bytes of two records in one chunk
RecordForRecordWitness ==
    /\ ~lossy
    /\ Len(sent) = MaxSends
    /\ returned = sent
    /\ chunking = {"split", "merged"}

(***************************************************************************)
(* Frames (protocol.rs) as the proxy engines see them.                     *)
(***************************************************************************)
\* stream ids explored (ClientProxy allocates 1, 2, ...)
MaxStreams == 2
\* reads that return data, over all sockets of one side
MaxReads == 2
\* sockets closed by their far end
MaxCloses == 2
\* tunnel losses explored
MaxDrops == 1
\* capacity of the per-stream channels (mpsc::channel::<Bytes>(100) on the
\* client, (10000) on the server), scaled down
ClientChanCap == 1
ServerChanCap == 1
\* capacity of the tunnel frame channels (mpsc::channel::<Frame>(1000) in
\* bin/client.rs, (100) in handle_connection), scaled down
ClientTunnelCap == 2
ServerTunnelCap == 2

Streams == 1..MaxStreams

Frame(t, id, p) == [t |-> t, id |-> id, p |-> p]

NoFrame == Frame("None", 0, <<>>)

\* mpsc::Sender::send completes only while the channel holds fewer than cap
Room(q, cap) == Len(q) < cap

\* a channel that hands out the newest value first
ChanPushFront(q, x) == <<x>> \o q

\* a completed send puts the value at the back of the channel
ChanPush(q, x) == Append(q, x)

\* a router that ignores the frame's stream id
RouteIdFirst(f) == 1

\* the stream a frame is routed to: map.get(&frame.stream_id)
RouteId(f) == f.id

(***************************************************************************)
(* Mux frame codec (protocol.rs).                                           *)
(* Format: [Type: 1] [StreamID: 4] [Length: 2] [Payload: Var]               *)
(***************************************************************************)
\* the header: type, stream id, length
HeaderLen == 7

\* FrameType as u8
TypeByte(t) ==
    CASE t = "Connect" -> 1
      [] t = "Data" -> 2
      [] t = "Disconnect" -> 3
      [] t = "Padding" -> 4

\* FrameType::try_from(value)
TryFrom(value) ==
    CASE value = 1 -> "Connect"
      [] value = 2 -> "Data"
      [] value = 3 -> "Disconnect"
      [] value = 4 -> "Padding"
      [] OTHER -> "Invalid"

\* a writer that keeps only the low byte of the length
PutU16Low(n) == << 0, n % 256 >>

\* BufMut::put_u16: two bytes, big-endian
PutU16(n) == << (n \div 256) % 256, n % 256 >>

\* Buf::get_u16 at offset pos of a buffer
GetU16At(b, pos) == b[pos + 1] * 256 + b[pos + 2]

\* Frame::to_bytes: the length field is payload.len() as u16
ToBytes(f) ==
    <<TypeByte(f.t)>> \o PutU32(f.id) \o PutU16(Len(f.p) % 65536) \o f.p

\* a check that forgets the header in the total and leaves the cursor behind
\* the length field
CheckPayloadOnly(b, pos) ==
    IF Len(b) - pos < HeaderLen
    THEN [some |-> FALSE, len |-> 0, pos |-> pos]
    ELSE IF Len(b) - pos < GetU16At(b, pos + 5)
         THEN [some |-> FALSE, len |-> 0, pos |-> pos + HeaderLen]
         ELSE [some |-> TRUE, len |-> GetU16At(b, pos + 5), pos |-> pos + HeaderLen]

\* Frame::check on a cursor over b at position pos: the result and the
\* position the cursor is left at
Check(b, pos) ==
    IF Len(b) - pos < HeaderLen
    THEN [some |-> FALSE, len |-> 0, pos |-> pos]
    ELSE LET len == GetU16At(b, pos + 5)
             total_len == HeaderLen + len
         IN  IF Len(b) - pos < total_len
             THEN [some |-> FALSE, len |-> 0, pos |-> pos]
             ELSE [some |-> TRUE, len |-> total_len, pos |-> pos]

\* Frame::parse(src): the result, and what is left in src afterwards
Parse(src) ==
    IF Len(src) < HeaderLen
    THEN [ok |-> FALSE, frame |-> NoFrame, rest |-> src]
    ELSE IF TryFrom(src[1]) = "Invalid"
    THEN [ok |-> FALSE, frame |-> NoFrame, rest |-> DropBytes(src, 1)]
    ELSE LET len == GetU16At(src, 5)
         IN  IF Len(src) - HeaderLen < len
             THEN [ok |-> FALSE, frame |-> NoFrame,
                   rest |-> DropBytes(src, HeaderLen)]
             ELSE [ok |-> TRUE,
                   frame |-> Frame(TryFrom(src[1]),
                                   GetU32(DropBytes(src, 1)),
                                   TakeBytes(DropBytes(src, HeaderLen), len)),
                   rest |-> DropBytes(src, HeaderLen + len)]

\* nothing has been given to the codec
NoResult == [phase |-> "idle", check |-> <<>>, parse |-> <<>>, whole |-> TRUE]

\* main has enabled the system proxy and no signal has been delivered
ShutdownIdle ==
    /\ shut = "running"
    /\ sysproxy = TRUE
    /\ sigints = 0

\* raw connections the listeners can accept
MaxConns == 3

Conns == 1..MaxConns

\* no raw connection has reached the listeners
AcceptIdle ==
    /\ sconn = [c \in Conns |->
                  [st |-> "none", peer |-> "none", why |-> "none",
                   engine |-> FALSE]]
    /\ acceptq = <<>>

\* HttpMimic has not been called
MimicIdle ==
    /\ mcall = [op |-> "none", pk |-> <<>>, is_server |-> FALSE]
    /\ mtext = <<>>
    /\ mres = [kind |-> "none", v |-> <<>>]

\* an endpoint that has not entered EncryptedConnection::new
NoEndpoint ==
    [st |-> "start", priv |-> 0, secret |-> 0, seq_in |-> 0, seq_out |-> 0,
     sends |-> 0, recvs |-> 0, order |-> <<>>]

\* the transport connection is open and neither end has started
HandshakeIdle ==
    /\ hcli = NoEndpoint
    /\ hsrv = NoEndpoint
    /\ hc2s = <<>>
    /\ hs2c = <<>>

\* main enters the reconnection loop: let mut attempt = 0
AttemptsIdle ==
    /\ attempt = 0
    /\ aphase = "select"
    /\ chosen = "None"
    /\ tries = 0
    /\ feedback = <<>>

HostIdle ==
    /\ ShutdownIdle
    /\ AcceptIdle
    /\ MimicIdle
    /\ HandshakeIdle
    /\ AttemptsIdle
    /\ injected = <<>>

\* no call has been made on the router whose history is kept
NoCall == [op |-> "none", name |-> "None", result |-> "None"]

ScorerIdle ==
    /\ slast = NoCall
    /\ sfailed = {}
    /\ sreg = {}
    /\ sevents = 0

\* nothing has been given to the codec or to a receive loop
FramingIdle ==
    /\ cin = NoFrame
    /\ cbuf = <<>>
    /\ cres = NoResult
    /\ rside = "none"
    /\ rframes = <<>>
    /\ rwire = <<>>
    /\ rbuf = <<>>
    /\ rdisp = <<>>
    /\ rstat = "idle"
    /\ ScorerIdle
    /\ HostIdle

(***************************************************************************)
(* Path scorer (chimera_ai).  Durations are kept in microseconds and the   *)
(* loss estimate in millionths; the f32 products are taken exactly and     *)
(* truncated.                                                              *)
(***************************************************************************)
PathNames == {"BlockedProtocol", "TCP"}

\* PathStats::new: 100 ms, no loss
PathStatsNew == [latency |-> 100000, loss |-> 0]

\* PathStats::score: latency in ms plus 1000 * loss
Score(st) == (st.latency \div 1000) + (st.loss \div 1000)

\* Router::register_path inserts (or overwrites with) a fresh record
RegisterPath(p, name) ==
    [n \in (DOMAIN p) \cup {name} |-> IF n = name THEN PathStatsNew ELSE p[n]]

\* Router::update_latency: latency <- 0.8 latency + 0.2 observed, loss <- 0.9 loss
UpdateLatency(p, name, observed) ==
    IF name \in DOMAIN p
    THEN [p EXCEPT ![name] =
            [latency |-> ((8 * @.latency) \div 10) + ((2 * observed) \div 10),
             loss |-> (9 * @.loss) \div 10]]
    ELSE p

\* a penalty of half the scale
ReportFailureHalf(p, name) ==
    IF name \in DOMAIN p THEN [p EXCEPT ![name].loss = 500000] ELSE p

\* Router::report_failure: loss <- 1.0
ReportFailure(p, name) ==
    IF name \in DOMAIN p THEN [p EXCEPT ![name].loss = 1000000] ELSE p

\* the orders in which a HashMap with these keys may be iterated
Orders(S) ==
    {o \in [1..Cardinality(S) -> S] : \A x \in S : \E i \in 1..Cardinality(S) : o[i] = x}

RECURSIVE MaxByKey(_, _)
\* a search that keeps the largest score
MaxByKey(p, order) ==
    IF order = <<>> THEN "None"
    ELSE LET rest == MaxByKey(p, Tail(order))
         IN  IF rest = "None" \/ Score(p[Head(order)]) > Score(p[rest])
             THEN Head(order) ELSE rest

RECURSIVE MinByKey(_, _)
\* Iterator::min_by_key over the entries in iteration order: None on an
\* empty map, else the first entry among those with the least score
MinByKey(p, order) ==
    IF order = <<>> THEN "None"
    ELSE LET rest == MinByKey(p, Tail(order))
         IN  IF rest = "None" \/ Score(p[Head(order)]) <= Score(p[rest])
             THEN Head(order) ELSE rest

\* Router::get_best_path: min_by_key over the HashMap, whose iteration order
\* is not fixed, so every order is possible
BestPaths(p) == {MinByKey(p, o) : o \in Orders(DOMAIN p)}

\* main: router.get_best_path().unwrap_or("TCP")
SelectedPaths(p) == {IF b = "None" THEN "TCP" ELSE b : b \in BestPaths(p)}

\* a setup that registers the two paths and makes no observation
RouterSetupUnseeded ==
    RegisterPath(RegisterPath(<<>>, "BlockedProtocol"), "TCP")

\* main, router setup: BlockedProtocol seeded with 10 ms, TCP with 100 ms
RouterSetup ==
    UpdateLatency(
        RegisterPath(
            UpdateLatency(RegisterPath(<<>>, "BlockedProtocol"),
                          "BlockedProtocol", 10000),
            "TCP"),
        "TCP", 100000)

\* BlockedTransport::connect always fails; TcpTransport::connect and the
\* handshake that follows succeed exactly when the server is reachable
ConnectSucceeds(name, up) == name # "BlockedProtocol" /\ up

(***************************************************************************)
(* Initial state of the tunnel: main has set up the router, the proxy and  *)
(* the SOCKS listener and enters the reconnection loop.                    *)
(***************************************************************************)
ClientStreamNone ==
    [task |-> "none", to_tunnel |-> "none", out |-> <<>>,
     from_tunnel |-> "none", inp |-> <<>>, rx |-> <<>>]

ServerStreamNone ==
    [task |-> "none", sess |-> 0, to_tunnel |-> "none", out |-> <<>>,
     from_tunnel |-> "none", inp |-> <<>>, rx |-> <<>>, tx |-> FALSE]

SocketNew == [reads |-> 0, closed |-> FALSE, written |-> <<>>]

\* what the environment does in one run: connections accepted by the SOCKS
\* listener, reads that return data on the local and on the destination
\* sockets, sockets closed by the far end, failed dials, lost tunnels, and
\* times the server becomes unreachable
Budget(a, r, p, c, f, d, o) ==
    [accepts |-> a, reads |-> r, replies |-> p, closes |-> c, dialfails |-> f,
     drops |-> d, outages |-> o]

\* multiplexed streams that send to their destinations
Uploads == Budget(MaxStreams, MaxReads, 0, 0, 0, 0, 0)
\* multiplexed streams whose destinations reply
Downloads == Budget(MaxStreams, 0, MaxReads, 0, 0, 0, 0)
\* multiplexed streams and a lost tunnel
TunnelLost == Budget(MaxStreams, 1, 1, 0, 0, MaxDrops, 0)
\* one stream whose application reads slowly and then goes away
SlowApplication == Budget(1, 0, ClientChanCap + 2, 1, 0, 0, 0)
\* one stream whose destination reads slowly, closes, or cannot be dialed
SlowDestination == Budget(1, ServerChanCap + 1, 1, MaxCloses, 1, 0, 0)
\* a lost tunnel and an unreachable server
Outage == Budget(1, 1, 0, 0, 0, MaxDrops, 1)

Scenarios ==
    {Uploads, Downloads, TunnelLost, SlowApplication, SlowDestination, Outage}

TunnelStart(scenarios, router) ==
    /\ \E e \in scenarios, down \in 0..1 :
          /\ down <= e.outages
          /\ env = [e EXCEPT !.outages = @ - down]
          /\ serverUp = (down = 0)
    /\ paths = router
    /\ csup = "attempt"
    /\ csupf = NoFrame
    /\ session = 0
    /\ link = "none"
    /\ next_id = 1
    /\ acc = [pc |-> "accept", id |-> 0]
    /\ c_streams = {}
    /\ c_mutex = "none"
    /\ c_tunnel = <<>>
    /\ cs = [i \in Streams |-> ClientStreamNone]
    /\ loc = [i \in Streams |-> SocketNew]
    /\ c2s = <<>>
    /\ s2c = <<>>
    /\ ssup = "none"
    /\ ssupf = NoFrame
    /\ s_tunnel = <<>>
    /\ ss = [i \in Streams |-> ServerStreamNone]
    /\ dst = [i \in Streams |-> SocketNew]

\* main has run its router setup
MuxStartFrom(scenarios) == TunnelStart(scenarios, RouterSetup)

MuxStart == MuxStartFrom(Scenarios)

(***************************************************************************)
(* Client main (bin/client.rs): reconnection loop and data loop.           *)
(***************************************************************************)
\* one connection attempt: pick the best path, connect, handshake, give the
\* scorer its feedback; a failure sleeps 1 s and tries again
SupAttempt ==
    /\ csup = "attempt"
    /\ \E name \in SelectedPaths(paths) :
          IF ConnectSucceeds(name, serverUp)
          THEN /\ paths' = UpdateLatency(paths, name, 50000)
               /\ csup' = "data"
               /\ session' = session + 1
               /\ link' = "up"
               /\ c2s' = <<>>
               /\ s2c' = <<>>
               /\ ssup' = "data"
               /\ ssupf' = NoFrame
               /\ s_tunnel' = <<>>
          ELSE /\ paths' = ReportFailure(paths, name)
               /\ UNCHANGED <<csup, session, link, c2s, s2c, ssup, ssupf, s_tunnel>>
    /\ UNCHANGED <<csupf, serverUp, cliVars, ss, dst, sessVars, frameVars, env>>

\* ClientProxy::handle_frame(frame), up to its first suspension.  The Data
\* arm takes the streams lock and sends under it: when the per-stream channel
\* is full the supervisor is suspended in send with the lock held.
\* handle_frame with the catch-all arm treated as a Disconnect
ClientHandleFrameCloses(f) ==
    IF f.t = "Data" /\ RouteId(f) \in c_streams
    THEN IF Room(cs[RouteId(f)].rx, ClientChanCap)
         THEN /\ cs' = [cs EXCEPT ![RouteId(f)].rx = ChanPush(@, f.p)]
              /\ UNCHANGED <<csup, csupf, c_mutex, c_streams>>
         ELSE /\ csup' = "hf_send"
              /\ csupf' = f
              /\ c_mutex' = "sup"
              /\ UNCHANGED <<cs, c_streams>>
    ELSE /\ c_streams' = c_streams \ {f.id}
         /\ UNCHANGED <<csup, csupf, c_mutex, cs>>

ClientHandleFrame(f) ==
    IF f.t = "Data" /\ RouteId(f) \in c_streams
    THEN IF Room(cs[RouteId(f)].rx, ClientChanCap)
         THEN /\ cs' = [cs EXCEPT ![RouteId(f)].rx = ChanPush(@, f.p)]
              /\ UNCHANGED <<csup, csupf, c_mutex, c_streams>>
         ELSE /\ csup' = "hf_send"
              /\ csupf' = f
              /\ c_mutex' = "sup"
              /\ UNCHANGED <<cs, c_streams>>
    ELSE IF f.t = "Disconnect"
         THEN /\ c_streams' = c_streams \ {f.id}
              /\ UNCHANGED <<csup, csupf, c_mutex, cs>>
         ELSE UNCHANGED <<csup, csupf, c_mutex, cs, c_streams>>

\* data loop, branch B: a record from the session holds one frame, which is
\* parsed and dispatched to the proxy engine
SupRecvFrame ==
    /\ csup = "data"
    /\ link = "up"
    /\ c_mutex = "none"
    /\ s2c # <<>>
    /\ s2c' = Tail(s2c)
    /\ ClientHandleFrame(Head(s2c))
    /\ UNCHANGED <<paths, session, link, serverUp, next_id, acc, c_tunnel, loc,
                   c2s, ssup, ssupf, s_tunnel, ss, dst, sessVars, frameVars, env>>

\* the suspended tx.send(frame.payload) completes: the channel has room again
\* (or its receiver is gone), and the lock guard is dropped
SupSendUnblock ==
    /\ csup = "hf_send"
    /\ LET i == RouteId(csupf)
       IN  \/ /\ cs[i].task = "closed"
              /\ UNCHANGED cs
           \/ /\ cs[i].task # "closed"
              /\ Room(cs[i].rx, ClientChanCap)
              /\ cs' = [cs EXCEPT ![i].rx = ChanPush(@, csupf.p)]
    /\ csup' = "data"
    /\ csupf' = NoFrame
    /\ c_mutex' = "none"
    /\ UNCHANGED <<paths, session, link, serverUp, next_id, acc, c_streams,
                   c_tunnel, loc, srvVars, sessVars, frameVars, env>>

\* data loop, branch C: a frame from the proxy goes out on the session
SupForward ==
    /\ csup = "data"
    /\ link = "up"
    /\ c_tunnel # <<>>
    /\ c_tunnel' = Tail(c_tunnel)
    /\ c2s' = Append(c2s, Head(c_tunnel))
    /\ UNCHANGED <<supVars, next_id, acc, c_streams, c_mutex, cs, loc,
                   s2c, ssup, ssupf, s_tunnel, ss, dst, sessVars, frameVars, env>>

\* branch C on a dead transport: the frame is taken from the channel and
\* lost; the write may still be accepted locally or fail and end the loop
SupSendDead ==
    /\ csup = "data"
    /\ link = "down"
    /\ c_tunnel # <<>>
    /\ c_tunnel' = Tail(c_tunnel)
    /\ \E accepted \in BOOLEAN : csup' = IF accepted THEN "data" ELSE "attempt"
    /\ UNCHANGED <<paths, csupf, session, link, serverUp, next_id, acc,
                   c_streams, c_mutex, cs, loc, srvVars, sessVars, frameVars, env>>

\* branch B on a dead transport: recv returns EOF or an error, the data loop
\* breaks, main sleeps 1 s and re-enters the reconnection loop
SupBreak ==
    /\ csup = "data"
    /\ link = "down"
    /\ csup' = "attempt"
    /\ UNCHANGED <<paths, csupf, session, link, serverUp, cliVars, srvVars,
                   sessVars, frameVars, env>>

\* the network: the session's transport dies, with whatever was in flight;
\* the server's handle_connection for it ends
TunnelDrop ==
    /\ link = "up"
    /\ env.drops > 0
    /\ link' = "down"
    /\ c2s' = <<>>
    /\ s2c' = <<>>
    /\ ssup' = "ended"
    /\ ssupf' = NoFrame
    /\ \E out \in {k \in 0..1 : k <= env.outages} :
          /\ serverUp' = (out = 0)
          /\ env' = [env EXCEPT !.drops = @ - 1, !.outages = @ - out]
    /\ UNCHANGED <<paths, csup, csupf, session, cliVars, s_tunnel, ss, dst,
                   sessVars, frameVars>>

\* the network: the server becomes reachable
ServerBack ==
    /\ ~serverUp
    /\ serverUp' = TRUE
    /\ UNCHANGED <<paths, csup, csupf, session, link, cliVars, srvVars, sessVars, frameVars, env>>

(***************************************************************************)
(* Client proxy engine (client_proxy.rs): start_new_stream and the task    *)
(* it spawns.                                                              *)
(***************************************************************************)
\* an allocator that hands out the same id again
IdAfterSame(n) == n

\* start_new_stream, under the next_id lock: *id_lock += 1
IdAfter(n) == n + 1

\* the SOCKS listener yields a socket (the success reply is already sent, so
\* the application may start writing) and start_new_stream assigns the id
Accept ==
    /\ env.accepts > 0
    /\ env' = [env EXCEPT !.accepts = @ - 1]
    /\ acc.pc = "accept"
    /\ acc' = [pc |-> "connect", id |-> next_id]
    /\ next_id' = IdAfter(next_id)
    /\ UNCHANGED <<supVars, c_streams, c_mutex, c_tunnel, cs, loc, srvVars,
                   sessVars, frameVars>>

\* start_new_stream step 1: tunnel_tx.send(connect_frame)
SendConnect ==
    /\ acc.pc = "connect"
    /\ Room(c_tunnel, ClientTunnelCap)
    /\ c_tunnel' = ChanPush(c_tunnel, Frame("Connect", acc.id, <<"target", acc.id>>))
    /\ acc' = [acc EXCEPT !.pc = "insert"]
    /\ UNCHANGED <<supVars, next_id, c_streams, c_mutex, cs, loc, srvVars,
                   sessVars, frameVars, env>>

\* start_new_stream step 2: insert the sender under the lock, spawn the task
InsertStream ==
    /\ acc.pc = "insert"
    /\ c_mutex = "none"
    /\ c_streams' = c_streams \cup {acc.id}
    /\ cs' = [cs EXCEPT ![acc.id] =
                [task |-> "run", to_tunnel |-> "read", out |-> <<>>,
                 from_tunnel |-> "recv", inp |-> <<>>, rx |-> <<>>]]
    /\ acc' = [pc |-> "accept", id |-> 0]
    /\ UNCHANGED <<supVars, next_id, c_mutex, c_tunnel, loc, srvVars, sessVars, frameVars, env>>

\* to_tunnel: rd.read returns n > 0 bytes; with n < 500 and a coin flip a
\* Padding frame goes first
ClientRead(i) ==
    /\ env.reads > 0
    /\ env' = [env EXCEPT !.reads = @ - 1]
    /\ cs[i].task = "run"
    /\ cs[i].to_tunnel = "read"
    /\ ~loc[i].closed
    /\ loc' = [loc EXCEPT ![i].reads = @ + 1]
    /\ \E pad \in BOOLEAN :
          cs' = [cs EXCEPT ![i].to_tunnel = IF pad THEN "pad" ELSE "send",
                           ![i].out = <<"c", i, loc[i].reads + 1>>]
    /\ UNCHANGED <<supVars, next_id, acc, c_streams, c_mutex, c_tunnel,
                   srvVars, sessVars, frameVars>>

\* to_tunnel: tunnel_tx.send(pad_frame)
ClientSendPadding(i) ==
    /\ cs[i].task = "run"
    /\ cs[i].to_tunnel = "pad"
    /\ Room(c_tunnel, ClientTunnelCap)
    /\ c_tunnel' = ChanPush(c_tunnel, Frame("Padding", i, <<"pad">>))
    /\ cs' = [cs EXCEPT ![i].to_tunnel = "send"]
    /\ UNCHANGED <<supVars, next_id, acc, c_streams, c_mutex, loc, srvVars,
                   sessVars, frameVars, env>>

\* to_tunnel: tunnel_tx.send(Data frame)
ClientSendData(i) ==
    /\ cs[i].task = "run"
    /\ cs[i].to_tunnel = "send"
    /\ Room(c_tunnel, ClientTunnelCap)
    /\ c_tunnel' = ChanPush(c_tunnel, Frame("Data", i, cs[i].out))
    /\ cs' = [cs EXCEPT ![i].to_tunnel = "read", ![i].out = <<>>]
    /\ UNCHANGED <<supVars, next_id, acc, c_streams, c_mutex, loc, srvVars,
                   sessVars, frameVars, env>>

\* to_tunnel: rd.read returns Ok(0) or Err: leave the loop
ClientReadEof(i) ==
    /\ cs[i].task = "run"
    /\ cs[i].to_tunnel = "read"
    /\ loc[i].closed
    /\ cs' = [cs EXCEPT ![i].to_tunnel = "disc"]
    /\ UNCHANGED <<supVars, next_id, acc, c_streams, c_mutex, c_tunnel, loc,
                   srvVars, sessVars, frameVars, env>>

\* to_tunnel: the terminal Disconnect frame
ClientSendDisconnect(i) ==
    /\ cs[i].task = "run"
    /\ cs[i].to_tunnel = "disc"
    /\ Room(c_tunnel, ClientTunnelCap)
    /\ c_tunnel' = ChanPush(c_tunnel, Frame("Disconnect", i, <<>>))
    /\ cs' = [cs EXCEPT ![i].to_tunnel = "done"]
    /\ UNCHANGED <<supVars, next_id, acc, c_streams, c_mutex, loc, srvVars,
                   sessVars, frameVars, env>>

\* from_tunnel: rx.recv() yields a payload
ClientRecv(i) ==
    /\ cs[i].task = "run"
    /\ cs[i].from_tunnel = "recv"
    /\ cs[i].rx # <<>>
    /\ cs' = [cs EXCEPT ![i].from_tunnel = "write", ![i].inp = Head(cs[i].rx),
                        ![i].rx = Tail(@)]
    /\ UNCHANGED <<supVars, next_id, acc, c_streams, c_mutex, c_tunnel, loc,
                   srvVars, sessVars, frameVars, env>>

\* from_tunnel: rx.recv() yields None: the channel is empty and its only
\* sender, the map's, has been dropped
ClientRecvNone(i) ==
    /\ cs[i].task = "run"
    /\ cs[i].from_tunnel = "recv"
    /\ cs[i].rx = <<>>
    /\ i \notin c_streams
    /\ cs' = [cs EXCEPT ![i].from_tunnel = "done"]
    /\ UNCHANGED <<supVars, next_id, acc, c_streams, c_mutex, c_tunnel, loc,
                   srvVars, sessVars, frameVars, env>>

\* from_tunnel: wr.write_all(&data); an error (socket closed) ends the loop
ClientWrite(i) ==
    /\ cs[i].task = "run"
    /\ cs[i].from_tunnel = "write"
    /\ IF loc[i].closed
       THEN /\ cs' = [cs EXCEPT ![i].from_tunnel = "done", ![i].inp = <<>>]
            /\ UNCHANGED loc
       ELSE /\ cs' = [cs EXCEPT ![i].from_tunnel = "recv", ![i].inp = <<>>]
            /\ loc' = [loc EXCEPT ![i].written = Append(@, cs[i].inp)]
    /\ UNCHANGED <<supVars, next_id, acc, c_streams, c_mutex, c_tunnel,
                   srvVars, sessVars, frameVars, env>>

\* after join!: take the lock, remove the id, end the task (rx and the
\* socket are dropped)
ClientCleanup(i) ==
    /\ cs[i].task = "run"
    /\ cs[i].to_tunnel = "done"
    /\ cs[i].from_tunnel = "done"
    /\ c_mutex = "none"
    /\ c_streams' = c_streams \ {i}
    /\ cs' = [cs EXCEPT ![i].task = "closed", ![i].rx = <<>>]
    /\ loc' = [loc EXCEPT ![i].closed = TRUE]
    /\ UNCHANGED <<supVars, next_id, acc, c_mutex, c_tunnel, srvVars, sessVars, frameVars, env>>

\* the local application closes its connection
LocalClose(i) ==
    /\ env.closes > 0
    /\ env' = [env EXCEPT !.closes = @ - 1]
    /\ i < next_id
    /\ ~loc[i].closed
    /\ loc' = [loc EXCEPT ![i].closed = TRUE]
    /\ UNCHANGED <<supVars, next_id, acc, c_streams, c_mutex, c_tunnel, cs,
                   srvVars, sessVars, frameVars>>

(***************************************************************************)
(* Server (lib.rs handle_connection, server_proxy.rs).  Each session has   *)
(* its own ServerProxy; a stream task belongs to the session that spawned  *)
(* it and keeps that session's map and tunnel channel.                     *)
(***************************************************************************)
\* the ids that have a sender in the current session's streams map
ServerStreams == {i \in Streams : ss[i].tx /\ ss[i].sess = session}

\* the tunnel channel of the session that spawned task i still has its
\* receiver (handle_connection is running)
ServerTunnelOpen(i) == ss[i].sess = session /\ ssup \in {"data", "hf_send"}

\* an engine that treats Data for an unknown stream as a protocol error
ServerHandleFrameStrict(f) ==
    IF f.t = "Connect"
    THEN /\ ss' = [ss EXCEPT ![f.id] =
                     [ServerStreamNone EXCEPT !.task = "dial", !.sess = session]]
         /\ UNCHANGED <<ssup, ssupf>>
    ELSE IF f.t = "Data" /\ RouteId(f) \notin ServerStreams
    THEN /\ ssup' = "ended"
         /\ UNCHANGED <<ssupf, ss>>
    ELSE IF f.t = "Data"
    THEN IF Room(ss[RouteId(f)].rx, ServerChanCap)
         THEN /\ ss' = [ss EXCEPT ![RouteId(f)].rx = ChanPush(@, f.p)]
              /\ UNCHANGED <<ssup, ssupf>>
         ELSE /\ ssup' = "hf_send"
              /\ ssupf' = f
              /\ UNCHANGED ss
    ELSE IF f.t = "Disconnect" /\ f.id \in ServerStreams
    THEN /\ ss' = [ss EXCEPT ![f.id].tx = FALSE]
         /\ UNCHANGED <<ssup, ssupf>>
    ELSE UNCHANGED <<ssup, ssupf, ss>>

\* ServerProxy::handle_frame(frame), up to its first suspension.  Connect
\* spawns the dialing task; Data clones the sender under the lock and sends
\* after releasing it; Disconnect removes the id; Padding is ignored.
ServerHandleFrame(f) ==
    IF f.t = "Connect"
    THEN /\ ss' = [ss EXCEPT ![f.id] =
                     [ServerStreamNone EXCEPT !.task = "dial", !.sess = session]]
         /\ UNCHANGED <<ssup, ssupf>>
    ELSE IF f.t = "Data" /\ RouteId(f) \in ServerStreams
    THEN IF Room(ss[RouteId(f)].rx, ServerChanCap)
         THEN /\ ss' = [ss EXCEPT ![RouteId(f)].rx = ChanPush(@, f.p)]
              /\ UNCHANGED <<ssup, ssupf>>
         ELSE /\ ssup' = "hf_send"
              /\ ssupf' = f
              /\ UNCHANGED ss
    ELSE IF f.t = "Disconnect" /\ f.id \in ServerStreams
    THEN /\ ss' = [ss EXCEPT ![f.id].tx = FALSE]
         /\ UNCHANGED <<ssup, ssupf>>
    ELSE UNCHANGED <<ssup, ssupf, ss>>

\* handle_connection, branch 1: a record from the session holds one frame
SrvRecvFrame ==
    /\ ssup = "data"
    /\ link = "up"
    /\ c2s # <<>>
    /\ c2s' = Tail(c2s)
    /\ ServerHandleFrame(Head(c2s))
    /\ UNCHANGED <<supVars, cliVars, s2c, s_tunnel, dst, sessVars, frameVars, env>>

\* the suspended tx.send(frame.payload) completes, or fails because the
\* task has dropped the receiver
SrvSendUnblock ==
    /\ ssup = "hf_send"
    /\ LET i == RouteId(ssupf)
       IN  \/ /\ ss[i].task = "closed"
              /\ UNCHANGED ss
           \/ /\ ss[i].task # "closed"
              /\ Room(ss[i].rx, ServerChanCap)
              /\ ss' = [ss EXCEPT ![i].rx = ChanPush(@, ssupf.p)]
    /\ ssup' = "data"
    /\ ssupf' = NoFrame
    /\ UNCHANGED <<supVars, cliVars, c2s, s2c, s_tunnel, dst, sessVars, frameVars, env>>

\* handle_connection, branch 2: a frame from the proxy goes out on the session
SrvForward ==
    /\ ssup = "data"
    /\ link = "up"
    /\ s_tunnel # <<>>
    /\ s_tunnel' = Tail(s_tunnel)
    /\ s2c' = Append(s2c, Head(s_tunnel))
    /\ UNCHANGED <<supVars, cliVars, c2s, ssup, ssupf, ss, dst, sessVars, frameVars, env>>

\* the spawned task: TcpStream::connect succeeds, the sender is inserted
\* under the lock, the two loops start
DialOk(i) ==
    /\ ss[i].task = "dial"
    /\ ss' = [ss EXCEPT ![i].task = "run", ![i].tx = TRUE,
                        ![i].to_tunnel = "read", ![i].from_tunnel = "recv"]
    /\ UNCHANGED <<supVars, cliVars, c2s, s2c, ssup, ssupf, s_tunnel, dst,
                   sessVars, frameVars, env>>

\* a failed dial that registers the stream all the same
DialFailInserts(i) ==
    /\ env.dialfails > 0
    /\ env' = [env EXCEPT !.dialfails = @ - 1]
    /\ ss[i].task = "dial"
    /\ ss' = [ss EXCEPT ![i].task = "dial_failed", ![i].tx = TRUE]
    /\ dst' = [dst EXCEPT ![i].closed = TRUE]
    /\ UNCHANGED <<supVars, cliVars, c2s, s2c, ssup, ssupf, s_tunnel, sessVars, frameVars>>

\* the spawned task: TcpStream::connect fails
DialFail(i) ==
    /\ env.dialfails > 0
    /\ env' = [env EXCEPT !.dialfails = @ - 1]
    /\ ss[i].task = "dial"
    /\ ss' = [ss EXCEPT ![i].task = "dial_failed"]
    /\ dst' = [dst EXCEPT ![i].closed = TRUE]
    /\ UNCHANGED <<supVars, cliVars, c2s, s2c, ssup, ssupf, s_tunnel, sessVars, frameVars>>

\* tunnel_tx.send(frame) from a server task: completes when the channel has
\* room, fails at once when the session's receiver is gone
SrvTunnelSend(i, f) ==
    IF ServerTunnelOpen(i)
    THEN /\ Room(s_tunnel, ServerTunnelCap)
         /\ s_tunnel' = ChanPush(s_tunnel, f)
    ELSE UNCHANGED s_tunnel

\* after a failed dial: send Disconnect (ignoring a send error) and exit
DialFailDisconnect(i) ==
    /\ ss[i].task = "dial_failed"
    /\ SrvTunnelSend(i, Frame("Disconnect", i, <<>>))
    /\ ss' = [ss EXCEPT ![i].task = "closed"]
    /\ UNCHANGED <<supVars, cliVars, c2s, s2c, ssup, ssupf, dst, sessVars, frameVars, env>>

\* to_tunnel: rd.read returns n > 0 bytes from the destination
SrvRead(i) ==
    /\ env.replies > 0
    /\ env' = [env EXCEPT !.replies = @ - 1]
    /\ ss[i].task = "run"
    /\ ss[i].to_tunnel = "read"
    /\ ~dst[i].closed
    /\ dst' = [dst EXCEPT ![i].reads = @ + 1]
    /\ ss' = [ss EXCEPT ![i].to_tunnel = "send",
                        ![i].out = <<"s", i, dst[i].reads + 1>>]
    /\ UNCHANGED <<supVars, cliVars, c2s, s2c, ssup, ssupf, s_tunnel, sessVars, frameVars>>

\* to_tunnel: tunnel_tx.send(Data frame); a send error leaves the loop
SrvSendData(i) ==
    /\ ss[i].task = "run"
    /\ ss[i].to_tunnel = "send"
    /\ SrvTunnelSend(i, Frame("Data", i, ss[i].out))
    /\ ss' = [ss EXCEPT ![i].to_tunnel = IF ServerTunnelOpen(i) THEN "read" ELSE "disc",
                        ![i].out = <<>>]
    /\ UNCHANGED <<supVars, cliVars, c2s, s2c, ssup, ssupf, dst, sessVars, frameVars, env>>

\* to_tunnel: rd.read returns Ok(0) or Err
SrvReadEof(i) ==
    /\ ss[i].task = "run"
    /\ ss[i].to_tunnel = "read"
    /\ dst[i].closed
    /\ ss' = [ss EXCEPT ![i].to_tunnel = "disc"]
    /\ UNCHANGED <<supVars, cliVars, c2s, s2c, ssup, ssupf, s_tunnel, dst,
                   sessVars, frameVars, env>>

\* to_tunnel: the terminal Disconnect frame (a send error is ignored)
SrvSendDisconnect(i) ==
    /\ ss[i].task = "run"
    /\ ss[i].to_tunnel = "disc"
    /\ SrvTunnelSend(i, Frame("Disconnect", i, <<>>))
    /\ ss' = [ss EXCEPT ![i].to_tunnel = "done"]
    /\ UNCHANGED <<supVars, cliVars, c2s, s2c, ssup, ssupf, dst, sessVars, frameVars, env>>

\* from_tunnel: rx.recv() yields a payload
SrvRecv(i) ==
    /\ ss[i].task = "run"
    /\ ss[i].from_tunnel = "recv"
    /\ ss[i].rx # <<>>
    /\ ss' = [ss EXCEPT ![i].from_tunnel = "write", ![i].inp = Head(ss[i].rx),
                        ![i].rx = Tail(@)]
    /\ UNCHANGED <<supVars, cliVars, c2s, s2c, ssup, ssupf, s_tunnel, dst,
                   sessVars, frameVars, env>>

\* from_tunnel: rx.recv() yields None: the channel is empty, the map's sender
\* has been removed and handle_frame holds no clone of it
SrvRecvNone(i) ==
    /\ ss[i].task = "run"
    /\ ss[i].from_tunnel = "recv"
    /\ ss[i].rx = <<>>
    /\ ~ss[i].tx
    /\ ~(ssup = "hf_send" /\ RouteId(ssupf) = i /\ ss[i].sess = session)
    /\ ss' = [ss EXCEPT ![i].from_tunnel = "done"]
    /\ UNCHANGED <<supVars, cliVars, c2s, s2c, ssup, ssupf, s_tunnel, dst,
                   sessVars, frameVars, env>>

\* from_tunnel: wr.write_all(&data); an error ends the loop
SrvWrite(i) ==
    /\ ss[i].task = "run"
    /\ ss[i].from_tunnel = "write"
    /\ IF dst[i].closed
       THEN /\ ss' = [ss EXCEPT ![i].from_tunnel = "done", ![i].inp = <<>>]
            /\ UNCHANGED dst
       ELSE /\ ss' = [ss EXCEPT ![i].from_tunnel = "recv", ![i].inp = <<>>]
            /\ dst' = [dst EXCEPT ![i].written = Append(@, ss[i].inp)]
    /\ UNCHANGED <<supVars, cliVars, c2s, s2c, ssup, ssupf, s_tunnel, sessVars, frameVars, env>>

\* after join!: remove the id under the lock and end the task (the receiver
\* and the destination socket are dropped)
SrvCleanup(i) ==
    /\ ss[i].task = "run"
    /\ ss[i].to_tunnel = "done"
    /\ ss[i].from_tunnel = "done"
    /\ ss' = [ss EXCEPT ![i].task = "closed", ![i].tx = FALSE, ![i].rx = <<>>]
    /\ dst' = [dst EXCEPT ![i].closed = TRUE]
    /\ UNCHANGED <<supVars, cliVars, c2s, s2c, ssup, ssupf, s_tunnel, sessVars, frameVars, env>>

\* the destination closes its connection
DestClose(i) ==
    /\ env.closes > 0
    /\ env' = [env EXCEPT !.closes = @ - 1]
    /\ ss[i].task = "run"
    /\ ~dst[i].closed
    /\ dst' = [dst EXCEPT ![i].closed = TRUE]
    /\ UNCHANGED <<supVars, cliVars, c2s, s2c, ssup, ssupf, s_tunnel, ss,
                   sessVars, frameVars>>

(***************************************************************************)
(* The tunnel: every step of the client, the server and their environment. *)
(***************************************************************************)
ClientStreamStep(i) ==
    \/ ClientRead(i)
    \/ ClientSendPadding(i)
    \/ ClientSendData(i)
    \/ ClientReadEof(i)
    \/ ClientSendDisconnect(i)
    \/ ClientRecv(i)
    \/ ClientRecvNone(i)
    \/ ClientWrite(i)
    \/ ClientCleanup(i)

ServerStreamStep(i) ==
    \/ DialOk(i)
    \/ DialFail(i)
    \/ DialFailDisconnect(i)
    \/ SrvRead(i)
    \/ SrvSendData(i)
    \/ SrvReadEof(i)
    \/ SrvSendDisconnect(i)
    \/ SrvRecv(i)
    \/ SrvRecvNone(i)
    \/ SrvWrite(i)
    \/ SrvCleanup(i)

ClientSupStep ==
    \/ SupAttempt
    \/ SupRecvFrame
    \/ SupSendUnblock
    \/ SupForward
    \/ SupSendDead
    \/ SupBreak

AcceptStep ==
    \/ Accept
    \/ SendConnect
    \/ InsertStream

ServerSupStep ==
    \/ SrvRecvFrame
    \/ SrvSendUnblock
    \/ SrvForward

MuxNext ==
    \/ ClientSupStep
    \/ AcceptStep
    \/ \E i \in Streams : ClientStreamStep(i)
    \/ ServerSupStep
    \/ \E i \in Streams : ServerStreamStep(i)
    \/ \E i \in Streams : LocalClose(i)
    \/ \E i \in Streams : DestClose(i)
    \/ TunnelDrop
    \/ ServerBack

MuxInit == SessStart /\ MuxStart /\ FramingIdle

Spec == MuxInit /\ [][MuxNext]_vars

SessInit == SessStart /\ MuxStartFrom({Outage}) /\ serverUp /\ FramingIdle

SpecSession == SessInit /\ [][SessNext]_vars

(***************************************************************************)
(* Properties of the multiplexer.                                           *)
(***************************************************************************)
\* the payloads of the Data frames for stream i in a queue of frames
DataFrames(q, i) == SelectSeq(q, LAMBDA f : f.t = "Data" /\ f.id = i)
Payloads(q, i) == [j \in 1..Len(DataFrames(q, i)) |-> DataFrames(q, i)[j].p]

One(p) == IF p = <<>> THEN <<>> ELSE <<p>>

\* everything read from the local socket of stream i that is still on its way,
\* nearest to the destination first
Upstream(i) ==
    dst[i].written
    \o One(ss[i].inp)
    \o ss[i].rx
    \o (IF ssup = "hf_send" /\ ssupf.id = i THEN <<ssupf.p>> ELSE <<>>)
    \o Payloads(c2s, i)
    \o Payloads(c_tunnel, i)
    \o One(cs[i].out)

\* everything read from the destination of stream i that is still on its way,
\* nearest to the local socket first
Downstream(i) ==
    loc[i].written
    \o One(cs[i].inp)
    \o cs[i].rx
    \o (IF csup = "hf_send" /\ csupf.id = i THEN <<csupf.p>> ELSE <<>>)
    \o Payloads(s2c, i)
    \o Payloads(s_tunnel, i)
    \o One(ss[i].out)

\* payloads appear in the order of the reads that produced them
InReadOrder(q) == \A a, b \in 1..Len(q) : a < b => q[a][3] < q[b][3]

\* C2: within one stream the Data frames are emitted on the tunnel in the
\* order their bytes were read, and the payloads are written to the socket at
\* the other end in the order the frames travel: at every moment the payloads
\* written, queued, in flight and about to be sent are in read order.
StreamOrderKept ==
    \A i \in Streams : InReadOrder(Upstream(i)) /\ InReadOrder(Downstream(i))

\* two reads of one stream have been written to its destination, and a
\* second stream is open beside it
StreamOrderKeptWitness ==
    \E i \in Streams :
        /\ Len(dst[i].written) = 2
        /\ next_id > MaxStreams

\* C3: for a stream whose dial succeeded and whose session stays up, every
\* byte read from the local socket arrives at the destination: the k-th
\* payload written to the destination is the k-th payload read.
NoDataDropped ==
    \A i \in Streams :
        (ss[i].task = "run" /\ ss[i].sess = session /\ link = "up" /\ session = 1)
            => \A k \in 1..Len(dst[i].written) : dst[i].written[k][3] = k

\* C4: every payload written to the destination socket of stream i was read
\* from the local socket of stream i, and every payload written to the local
\* socket of stream i was read from the destination of stream i.
NoCrossContamination ==
    \A i \in Streams :
        /\ \A k \in 1..Len(dst[i].written) :
              dst[i].written[k][1] = "c" /\ dst[i].written[k][2] = i
        /\ \A k \in 1..Len(loc[i].written) :
              loc[i].written[k][1] = "s" /\ loc[i].written[k][2] = i

\* every stream on the tunnel has delivered a payload to its destination
NoCrossContaminationWitness ==
    /\ MaxStreams > 1
    /\ \A i \in Streams : dst[i].written # <<>>

\* the server has received the Connect for id on the current session
ConnectReceived(id) == ss[id].task # "none" /\ ss[id].sess = session

\* C5: on every session the server receives the Connect for id N before any
\* Data or Disconnect for N: each such frame in flight to the server is
\* preceded on this session by the Connect for its id.
ConnectIsFirst ==
    \A j \in 1..Len(c2s) :
        c2s[j].t \in {"Data", "Disconnect"}
            => \/ ConnectReceived(c2s[j].id)
               \/ \E h \in 1..(j - 1) :
                     c2s[h].t = "Connect" /\ c2s[h].id = c2s[j].id

\* C7: no frame crosses sessions on the client: no Data or Disconnect frame
\* is in flight on a session later than the one that carried its stream's
\* Connect.
NoFrameCrossesSessions ==
    \A j \in 1..Len(c2s) :
        c2s[j].t \in {"Data", "Disconnect"}
            => ~(ss[c2s[j].id].task # "none" /\ ss[c2s[j].id].sess < session)

\* C8: the streams lock is never held by a task that is suspended in a send
\* on a per-stream channel.
NoLockAcrossSend == ~(csup = "hf_send" /\ c_mutex = "sup")

\* C9: the supervisor is never suspended in handle_frame(Data) on a full
\* channel whose task has stopped receiving and waits for the streams lock.
NoSupervisorTaskDeadlock ==
    ~ \E i \in Streams :
        /\ csup = "hf_send"
        /\ csupf.id = i
        /\ c_mutex = "sup"
        /\ ~Room(cs[i].rx, ClientChanCap)
        /\ cs[i].task = "run"
        /\ cs[i].to_tunnel = "done"
        /\ cs[i].from_tunnel = "done"

(***************************************************************************)
(* The reconnection loop on its own: one stream sends upstream while the    *)
(* tunnel is lost and the server is unreachable for a while.  Every step    *)
(* the client and the server can take is eventually taken; the network and  *)
(* the application are free.                                                *)
(***************************************************************************)
ReconnectInit == SessStart /\ MuxStartFrom({Outage}) /\ FramingIdle

ReconnectNext ==
    \/ SupAttempt
    \/ SupForward
    \/ SupSendDead
    \/ SupBreak
    \/ TunnelDrop
    \/ ServerBack
    \/ AcceptStep
    \/ \E i \in Streams :
          \/ ClientRead(i)
          \/ ClientSendPadding(i)
          \/ ClientSendData(i)
          \/ DialOk(i)
          \/ SrvRecv(i)
          \/ SrvWrite(i)
    \/ SrvRecvFrame

ReconnectFair ==
    /\ WF_vars(SupAttempt)
    /\ WF_vars(SupForward)
    /\ WF_vars(SupSendDead)
    /\ WF_vars(SupBreak)
    /\ WF_vars(SendConnect)
    /\ WF_vars(InsertStream)
    /\ WF_vars(SrvRecvFrame)
    /\ \A i \in Streams :
          /\ WF_vars(ClientSendPadding(i))
          /\ WF_vars(ClientSendData(i))
          /\ WF_vars(DialOk(i))
          /\ WF_vars(SrvRecv(i))
          /\ WF_vars(SrvWrite(i))

SpecReconnect == ReconnectInit /\ [][ReconnectNext]_vars /\ ReconnectFair

\* C6: once the server is reachable and stays reachable, the reconnection
\* loop re-establishes a session: the tunnel is up again and again, the loop
\* does not keep selecting a path that cannot connect.
ReconnectsWhenReachable == (<>[]serverUp) => ([]<>(link = "up"))

(***************************************************************************)
(* Stream teardown on its own: streams that send upstream and are closed    *)
(* by the application or by the destination, on a tunnel that stays up.     *)
(***************************************************************************)
Teardown == Budget(MaxStreams, 1, 0, MaxCloses, 0, 0, 0)

TeardownInit == SessStart /\ MuxStartFrom({Teardown}) /\ FramingIdle

TeardownNext ==
    \/ SupAttempt
    \/ SupRecvFrame
    \/ SupForward
    \/ AcceptStep
    \/ \E i \in Streams :
          \/ ClientRead(i)
          \/ ClientSendPadding(i)
          \/ ClientSendData(i)
          \/ ClientReadEof(i)
          \/ ClientSendDisconnect(i)
          \/ ClientRecvNone(i)
          \/ ClientCleanup(i)
          \/ LocalClose(i)
    \/ SrvRecvFrame
    \/ SrvForward
    \/ \E i \in Streams :
          \/ DialOk(i)
          \/ SrvReadEof(i)
          \/ SrvSendDisconnect(i)
          \/ SrvRecv(i)
          \/ SrvRecvNone(i)
          \/ SrvWrite(i)
          \/ SrvCleanup(i)
          \/ DestClose(i)

TeardownFair ==
    /\ WF_vars(SupAttempt)
    /\ WF_vars(SupRecvFrame)
    /\ WF_vars(SupForward)
    /\ WF_vars(SendConnect)
    /\ WF_vars(InsertStream)
    /\ WF_vars(SrvRecvFrame)
    /\ WF_vars(SrvForward)
    /\ \A i \in Streams :
          /\ WF_vars(ClientSendPadding(i))
          /\ WF_vars(ClientSendData(i))
          /\ WF_vars(ClientReadEof(i))
          /\ WF_vars(ClientSendDisconnect(i))
          /\ WF_vars(ClientRecvNone(i))
          /\ WF_vars(ClientCleanup(i))
          /\ WF_vars(DialOk(i))
          /\ WF_vars(SrvReadEof(i))
          /\ WF_vars(SrvSendDisconnect(i))
          /\ WF_vars(SrvRecv(i))
          /\ WF_vars(SrvRecvNone(i))
          /\ WF_vars(SrvWrite(i))
          /\ WF_vars(SrvCleanup(i))

SpecTeardown == TeardownInit /\ [][TeardownNext]_vars /\ TeardownFair

\* C10: once the client has closed the local socket of stream N and emitted
\* its Disconnect, the server eventually ends the stream: its task has
\* dropped the destination socket and the map holds no entry for N.
DisconnectClosesDestination ==
    \A i \in Streams :
        (cs[i].to_tunnel = "done")
            ~> (ss[i].task = "closed" /\ i \notin ServerStreams)

FreshIdSpacePerSession ==
    [][(session >= 1 /\ session' = session + 1) => next_id' = 1]_vars

(***************************************************************************)
(* The codec applied to one frame: to_bytes, then check and parse on the    *)
(* bytes, or on what a peer or a cut in the stream made of them.            *)
(***************************************************************************)
\* the largest payload the length field can describe
MaxPayload == 65535

CodecTypes == {"Connect", "Data", "Disconnect", "Padding"}

\* stream ids (TLC's integers end at 2^31 - 1)
CodecIds == {0, 1, 258, 2147483647}

Fill(n) == [i \in 1..n |-> i % 251]

\* payloads: empty, short, around the one-byte length boundary, and the
\* largest
CodecPayloads == {Fill(n) : n \in {0, 1, 2, 255, 256, MaxPayload}}

CodecInit ==
    /\ SessStart
    /\ MuxStartFrom({Outage})
    /\ serverUp
    /\ cin \in {Frame(t, id, pl) : t \in CodecTypes, id \in CodecIds,
                                   pl \in CodecPayloads}
    /\ cbuf = <<>>
    /\ cres = [NoResult EXCEPT !.phase = "frame"]
    /\ rside = "none"
    /\ rframes = <<>>
    /\ rwire = <<>>
    /\ rbuf = <<>>
    /\ rdisp = <<>>
    /\ rstat = "idle"
    /\ ScorerIdle
    /\ HostIdle

\* Frame::to_bytes(cin)
CodecToBytes ==
    /\ cres.phase = "frame"
    /\ cbuf' = ToBytes(cin)
    /\ cres' = [cres EXCEPT !.phase = "buffer"]
    /\ UNCHANGED <<cin, rside, rframes, rwire, rbuf, rdisp, rstat, sessVars, muxVars, scorerVars,
                   hostVars>>

\* the buffer a receiver holds instead: a prefix of the frame, the frame
\* followed by the start of another, or a frame with another type byte
OtherBuffers(b) ==
    {TakeBytes(b, k) : k \in {0, 6, Min(7, Len(b) - 1), Len(b) - 1}}
        \cup {b \o <<2, 0, 0>>}
        \cup {<<tb>> \o DropBytes(b, 1) : tb \in {0, 5, 255}}

CodecOtherBuffer ==
    /\ cres.phase = "buffer"
    /\ cres.whole
    /\ cres.check = <<>>
    /\ cres.parse = <<>>
    /\ \E b \in OtherBuffers(cbuf) : cbuf' = b
    /\ cres' = [cres EXCEPT !.whole = FALSE]
    /\ UNCHANGED <<cin, rside, rframes, rwire, rbuf, rdisp, rstat, sessVars, muxVars, scorerVars,
                   hostVars>>

\* Frame::check(&mut Cursor::new(&buf[..]))
CodecCheck ==
    /\ cres.phase = "buffer"
    /\ cres.check = <<>>
    /\ cres' = [cres EXCEPT !.check = <<Check(cbuf, 0)>>]
    /\ UNCHANGED <<cin, cbuf, rside, rframes, rwire, rbuf, rdisp, rstat, sessVars,
                   muxVars, scorerVars,
                   hostVars>>

\* Frame::parse(&mut bytes)
CodecParse ==
    /\ cres.phase = "buffer"
    /\ cres.parse = <<>>
    /\ cres' = [cres EXCEPT !.parse = <<Parse(cbuf)>>]
    /\ UNCHANGED <<cin, cbuf, rside, rframes, rwire, rbuf, rdisp, rstat, sessVars,
                   muxVars, scorerVars,
                   hostVars>>

CodecNext ==
    \/ CodecToBytes
    \/ CodecOtherBuffer
    \/ CodecCheck
    \/ CodecParse

SpecCodec == CodecInit /\ [][CodecNext]_vars

\* C13: for every frame type, every stream id and every payload of 0..65535
\* bytes, parse(to_bytes(f)) returns f (same type, id and payload) and
\* leaves nothing over.
ParseInvertsToBytes ==
    (cres.whole /\ cres.parse # <<>>)
        => /\ cres.parse[1].ok
           /\ cres.parse[1].frame = cin
           /\ cres.parse[1].rest = <<>>

\* a frame whose payload length needs both length bytes has been serialized
\* and parsed back
ParseInvertsToBytesWitness ==
    /\ cres.whole
    /\ cres.parse # <<>>
    /\ Len(cin.p) = 256
    /\ cin.id = 258
    /\ cres.parse[1].frame = cin

\* C14 as stated: whenever check returns Some(L) on a buffer, L is 7 plus the
\* big-endian u16 at offset 5, the cursor is where it was, and parse on that
\* buffer consumes exactly L bytes; check returns None on fewer than 7 bytes
\* or fewer than 7+L bytes.
CheckThenParseConsumes ==
    (cres.check # <<>> /\ cres.parse # <<>>)
        => LET c == cres.check[1]
           IN  /\ c.pos = 0
               /\ Len(cbuf) < HeaderLen => ~c.some
               /\ Len(cbuf) >= HeaderLen =>
                     /\ c.some <=> Len(cbuf) >= HeaderLen + GetU16At(cbuf, 5)
                     /\ c.some => c.len = HeaderLen + GetU16At(cbuf, 5)
               /\ c.some => Len(cbuf) - Len(cres.parse[1].rest) = c.len

\* C14 amended: the same, with parse consuming exactly L bytes when the
\* buffer's type byte is one of the four frame types; on any other type byte
\* parse fails after consuming that byte alone.
CheckThenParseValidType ==
    (cres.check # <<>> /\ cres.parse # <<>>)
        => LET c == cres.check[1]
           IN  /\ c.pos = 0
               /\ Len(cbuf) < HeaderLen => ~c.some
               /\ Len(cbuf) >= HeaderLen =>
                     /\ c.some <=> Len(cbuf) >= HeaderLen + GetU16At(cbuf, 5)
                     /\ c.some => c.len = HeaderLen + GetU16At(cbuf, 5)
               /\ (c.some /\ cbuf[1] \in 1..4) =>
                     /\ cres.parse[1].ok
                     /\ Len(cbuf) - Len(cres.parse[1].rest) = c.len
               /\ (c.some /\ cbuf[1] \notin 1..4) =>
                     /\ ~cres.parse[1].ok
                     /\ Len(cbuf) - Len(cres.parse[1].rest) = 1

\* check has accepted a buffer that holds a frame and the start of the next,
\* and parse has taken the frame alone
CheckThenParseValidTypeWitness ==
    /\ cres.check # <<>>
    /\ cres.parse # <<>>
    /\ cres.check[1].some
    /\ cres.parse[1].ok
    /\ cres.parse[1].rest # <<>>

(***************************************************************************)
(* The tunnel-read branch of the two supervisors: each record recv returns  *)
(* is appended to the accumulation buffer, and the buffer is drained with   *)
(* check / split_to / parse / handle_frame.                                 *)
(***************************************************************************)
\* frames (or damaged frames) the peer writes on one session
MaxFrames == 2

\* String::from_utf8 on the payloads used here: ASCII bytes are valid, a
\* byte 0xF8..0xFF never is
Utf8(pl) == \A i \in 1..Len(pl) : pl[i] < 128

\* the Result of handle_frame as the receive loop sees it: the client
\* discards it; the server's Connect fails on a target that is not UTF-8
HandleFrameOk(side, f) == ~(side = "server" /\ f.t = "Connect" /\ ~Utf8(f.p))

\* what a peer can write: frames as to_bytes emits them, a frame under a
\* type byte no FrameType has, and a frame one payload byte short
Item(f, kind) == [f |-> f, kind |-> kind]

WireItems ==
    {Item(Frame("Connect", 1, <<104>>), "good"),
     Item(Frame("Connect", 2, <<255>>), "good"),
     Item(Frame("Data", 1, <<7, 8>>), "good"),
     Item(Frame("Disconnect", 1, <<>>), "good"),
     Item(Frame("Data", 1, <<7>>), "badtype"),
     Item(Frame("Data", 2, <<7, 8>>), "truncated")}

ItemBytes(it) ==
    CASE it.kind = "good" -> ToBytes(it.f)
      [] it.kind = "badtype" -> <<9>> \o DropBytes(ToBytes(it.f), 1)
      [] it.kind = "truncated" -> TakeBytes(ToBytes(it.f), Len(ToBytes(it.f)) - 1)

RECURSIVE WireBytes(_)
WireBytes(items) ==
    IF items = <<>> THEN <<>> ELSE ItemBytes(Head(items)) \o WireBytes(Tail(items))

\* a loop body that runs once per record
DrainOnce(side, buf, disp) ==
    LET c == Check(buf, 0)
    IN  IF ~c.some
        THEN [buf |-> buf, disp |-> disp, err |-> FALSE]
        ELSE LET p == Parse(TakeBytes(buf, c.len))
             IN  [buf |-> DropBytes(buf, c.len),
                  disp |-> IF p.ok THEN Append(disp, p.frame) ELSE disp,
                  err |-> FALSE]

RECURSIVE Drain(_, _, _)
\* the inner loop: while check finds a whole frame, split it off, parse it
\* and hand it to handle_frame. The server returns on a parse or
\* handle_frame error (the ? operators); the client takes only Ok frames
\* and goes on.
Drain(side, buf, disp) ==
    LET c == Check(buf, 0)
    IN  IF ~c.some
        THEN [buf |-> buf, disp |-> disp, err |-> FALSE]
        ELSE LET frame_bytes == TakeBytes(buf, c.len)
                 rest == DropBytes(buf, c.len)
                 p == Parse(frame_bytes)
             IN  IF ~p.ok
                 THEN IF side = "server"
                      THEN [buf |-> rest, disp |-> disp, err |-> TRUE]
                      ELSE Drain(side, rest, disp)
                 ELSE IF side = "server" /\ ~HandleFrameOk(side, p.frame)
                      THEN [buf |-> rest, disp |-> Append(disp, p.frame),
                            err |-> TRUE]
                      ELSE Drain(side, rest, Append(disp, p.frame))

FramingInit ==
    /\ SessStart
    /\ MuxStartFrom({Outage})
    /\ serverUp
    /\ cin = NoFrame
    /\ cbuf = <<>>
    /\ cres = NoResult
    /\ rside \in {"client", "server"}
    /\ \E n \in 1..MaxFrames : rframes \in [1..n -> WireItems]
    /\ rwire = WireBytes(rframes)
    /\ rbuf = <<>>
    /\ rdisp = <<>>
    /\ rstat = "running"
    /\ ScorerIdle
    /\ HostIdle

\* recv returns Ok(Some(data)): one record, cut anywhere in the byte stream
FrameRecv ==
    /\ rstat = "running"
    /\ rwire # <<>>
    /\ \E k \in 1..Len(rwire) :
          LET d == Drain(rside, rbuf \o TakeBytes(rwire, k), rdisp)
          IN  /\ rwire' = DropBytes(rwire, k)
              /\ rbuf' = d.buf
              /\ rdisp' = d.disp
              /\ rstat' = IF d.err THEN "ended" ELSE "running"
    /\ UNCHANGED <<cin, cbuf, cres, rside, rframes, sessVars, muxVars, scorerVars,
                   hostVars>>

\* recv returns Ok(None): the loop is left
FrameEof ==
    /\ rstat = "running"
    /\ rwire = <<>>
    /\ rstat' = "ended"
    /\ UNCHANGED <<cin, cbuf, cres, rside, rframes, rwire, rbuf, rdisp, sessVars,
                   muxVars, scorerVars,
                   hostVars>>

FramingNext ==
    \/ FrameRecv
    \/ FrameEof

SpecFraming == FramingInit /\ [][FramingNext]_vars

\* what the receiver has been given so far
Delivered == Len(WireBytes(rframes)) - Len(rwire)

\* offset of the end of the i-th item in the byte stream
EndOf(i) == Len(WireBytes(SubSeq(rframes, 1, i)))

\* number of leading items wholly delivered
Completed ==
    CHOOSE j \in 0..Len(rframes) :
        /\ EndOf(j) <= Delivered
        /\ j < Len(rframes) => EndOf(j + 1) > Delivered

AllGood == \A i \in 1..Len(rframes) : rframes[i].kind = "good"

FramesOf(items) == [i \in 1..Len(items) |-> items[i].f]

\* C15 as stated: when the peer writes whole frames only, then whatever the
\* record cuts, the frames handed to handle_frame are exactly the frames
\* wholly delivered so far, once each and in order, and what is left in the
\* buffer is the delivered part of the next frame.
EveryFrameDispatchedOnce ==
    AllGood =>
        /\ rdisp = FramesOf(SubSeq(rframes, 1, Completed))
        /\ rbuf = SubSeq(WireBytes(rframes), EndOf(Completed) + 1, Delivered)

\* the wholly delivered frames on which handle_frame returns an error
Rejected == {i \in 1..Completed : ~HandleFrameOk(rside, rframes[i].f)}

\* C15 amended: the same up to and including the first frame on which
\* handle_frame returns an error, which ends the loop; while no such frame
\* has been delivered the buffer holds the delivered part of the next
\* frame and the loop ends at end of stream only.
DispatchedOnceUntilRejected ==
    AllGood =>
        IF Rejected = {}
        THEN /\ rdisp = FramesOf(SubSeq(rframes, 1, Completed))
             /\ rbuf = SubSeq(WireBytes(rframes), EndOf(Completed) + 1, Delivered)
             /\ rstat = "ended" => rwire = <<>>
        ELSE LET e == CHOOSE i \in Rejected : \A j \in Rejected : i <= j
             IN  /\ rdisp = FramesOf(SubSeq(rframes, 1, e))
                 /\ rstat = "ended"

\* one record brought two whole frames and both were dispatched
DispatchedOnceUntilRejectedWitness ==
    /\ AllGood
    /\ Rejected = {}
    /\ Len(rframes) = 2
    /\ Len(rdisp) = 2
    /\ rbuf = <<>>
    /\ rstat = "running"

\* C20: once a frame with a type byte outside 1..4 has been delivered
\* whole, or bytes beyond the end of a truncated frame have been delivered,
\* the session's receive loop has ended (the first damaged frame on the
\* session, everything before it accepted) and nothing after it was
\* dispatched.
MalformedFrameIsFatal ==
    \A i \in 1..Len(rframes) :
        ( /\ rframes[i].kind # "good"
          /\ \A j \in 1..(i - 1) : /\ rframes[j].kind = "good"
                                   /\ HandleFrameOk(rside, rframes[j].f)
          /\ \/ rframes[i].kind = "badtype" /\ Delivered >= EndOf(i)
             \/ rframes[i].kind = "truncated" /\ Delivered > EndOf(i) )
        => /\ rstat = "ended"
           /\ Len(rdisp) = i - 1

(***************************************************************************)
(* The sequence counters of a session on a network that may drop,          *)
(* duplicate or reorder whole records between the two ends.                *)
(***************************************************************************)
\* the first record of a run of whole records, and what follows it
FirstRecord(w) == TakeBytes(w, LenPrefix + GetU32(w))
AfterFirst(w) == DropBytes(w, LenPrefix + GetU32(w))

\* the bytes in flight are the last n records sent, none of them touched
InFlight(n) ==
    wire = RecordsFrom(Len(sent) - n, SubSeq(sent, Len(sent) - n + 1, Len(sent)))

\* the network tampers with whole records in flight, once
RecordTamper ==
    /\ ~lossy
    /\ buffer = <<>>
    /\ \E n \in 1..Len(sent) :
          /\ InFlight(n)
          /\ \/ /\ wire' = AfterFirst(wire)
                /\ chunking' = chunking \cup {"dropped"}
             \/ /\ wire' = FirstRecord(wire) \o wire
                /\ chunking' = chunking \cup {"duplicated"}
             \/ /\ n >= 2
                /\ wire' = FirstRecord(AfterFirst(wire)) \o FirstRecord(wire)
                               \o AfterFirst(AfterFirst(wire))
                /\ chunking' = chunking \cup {"reordered"}
    /\ lossy' = TRUE
    /\ UNCHANGED <<seq_out, sent, wclosed, buffer, seq_in, rpc, returned, rlast>>
    /\ UNCHANGED <<muxVars, frameVars>>

SequenceNext ==
    \/ \E data \in Plain : Send(data)
    \/ CloseSend
    \/ RecordTamper
    \/ RecvCall
    \/ RecvPacket
    \/ RecvNeedMore
    \/ RecvChunk
    \/ RecvEof

SpecSequence == SessInit /\ [][SequenceNext]_vars

\* the sequence numbers under which the sender sealed this ciphertext
SealedWith(chunk) ==
    {k \in 0..(Len(sent) - 1) : chunk = Encrypt(k, sent[k + 1])}

\* C16: both counters start at 0; seq_out is the number of sends made and
\* seq_in the number of records returned; the k-th send puts on the wire the
\* record sealed with sequence k; a recv that takes a record from the buffer
\* returns its plaintext and counts it when the record was sealed with
\* seq_in, and fails, returning and counting nothing, when it was sealed
\* with any other sequence (a dropped, duplicated or reordered record); so
\* what recv has returned is always the first seq_in plaintexts sent.
SequencesCountRecords ==
    /\ seq_out = 0 /\ seq_in = 0
    /\ [](/\ seq_out = Len(sent)
          /\ seq_in = Len(returned)
          /\ returned = SubSeq(sent, 1, seq_in))
    /\ [][sent' # sent =>
             wire' = wire \o FrameRecord(Encrypt(Len(sent), sent'[Len(sent')]))]_vars
    /\ [][(rpc = "parse" /\ FullPacket(buffer) /\ rpc' = "idle") =>
             IF seq_in \in SealedWith(PacketChunk(buffer))
             THEN /\ rlast' = "some"
                  /\ returned' = Append(returned, sent[seq_in + 1])
                  /\ seq_in' = seq_in + 1
             ELSE /\ rlast' = "error"
                  /\ returned' = returned
                  /\ seq_in' = seq_in]_vars

\* the first record was returned and its duplicate, presented at sequence
\* 1, was refused
SequencesCountRecordsWitness ==
    /\ "duplicated" \in chunking
    /\ Len(returned) = 1
    /\ seq_in = 1
    /\ rlast = "error"

(***************************************************************************)
(* The path scorer under any sequence of calls, from Router::new.          *)
(***************************************************************************)
\* calls made on the router in one run
MaxEvents == 5

\* observed latencies, in microseconds: 10 ms, 50 ms, 2 s
Observed == {10000, 50000, 2000000}

ScorerInit ==
    /\ SessStart
    /\ TunnelStart({Outage}, <<>>)
    /\ serverUp
    /\ FramingIdle

ScorerRest ==
    <<csup, csupf, session, link, serverUp, cliVars, srvVars, env, sessVars,
      cin, cbuf, cres, rside, rframes, rwire, rbuf, rdisp, rstat, hostVars>>

\* router.register_path(name)
ScRegister(name) ==
    /\ sevents < MaxEvents
    /\ paths' = RegisterPath(paths, name)
    /\ slast' = [op |-> "register", name |-> name, result |-> "None"]
    /\ sreg' = IF name \in sfailed THEN sreg \cup {name} ELSE sreg
    /\ sevents' = sevents + 1
    /\ UNCHANGED <<sfailed, ScorerRest>>

\* router.update_latency(name, observed)
ScUpdate(name, observed) ==
    /\ sevents < MaxEvents
    /\ paths' = UpdateLatency(paths, name, observed)
    /\ slast' = [op |-> "update", name |-> name, result |-> "None"]
    /\ sfailed' = sfailed \ {name}
    /\ sreg' = sreg \ {name}
    /\ sevents' = sevents + 1
    /\ UNCHANGED ScorerRest

\* router.report_failure(name)
ScFailure(name) ==
    /\ sevents < MaxEvents
    /\ paths' = ReportFailure(paths, name)
    /\ slast' = [op |-> "failure", name |-> name, result |-> "None"]
    /\ sfailed' = IF name \in DOMAIN paths THEN sfailed \cup {name} ELSE sfailed
    /\ sreg' = sreg \ {name}
    /\ sevents' = sevents + 1
    /\ UNCHANGED ScorerRest

\* router.get_best_path()
ScBest ==
    /\ sevents < MaxEvents
    /\ \E b \in BestPaths(paths) :
          slast' = [op |-> "best", name |-> "None", result |-> b]
    /\ sevents' = sevents + 1
    /\ UNCHANGED <<paths, sfailed, sreg, ScorerRest>>

ScorerNext ==
    \/ \E name \in PathNames : ScRegister(name)
    \/ \E name \in PathNames, observed \in Observed : ScUpdate(name, observed)
    \/ \E name \in PathNames : ScFailure(name)
    \/ ScBest

SpecScorer == ScorerInit /\ [][ScorerNext]_vars

\* an update_latency(name, _) call on a registered path
UpdateOf(name) ==
    /\ sevents' = sevents + 1
    /\ slast'.op = "update"
    /\ slast'.name = name
    /\ name \in DOMAIN paths

\* C17 as stated: a registered path that has had a report_failure and no
\* update_latency since has a score of at least 1000, and every
\* update_latency on a path takes its loss to 0.9 of what it was, strictly
\* less when it was positive.
FailedScoresHigh ==
    /\ [](\A name \in sfailed : Score(paths[name]) >= 1000)
    /\ [][\A name \in PathNames :
             UpdateOf(name) =>
                /\ paths'[name].loss = (9 * paths[name].loss) \div 10
                /\ paths[name].loss > 0 => paths'[name].loss < paths[name].loss]_vars

\* C17 amended: the same for a path that has had a report_failure and since
\* then neither an update_latency nor a register_path (which puts a fresh
\* record in its place).
FailedScoresHighUntilReset ==
    /\ [](\A name \in sfailed \ sreg : Score(paths[name]) >= 1000)
    /\ [][\A name \in PathNames :
             UpdateOf(name) =>
                /\ paths'[name].loss = (9 * paths[name].loss) \div 10
                /\ paths[name].loss > 0 => paths'[name].loss < paths[name].loss]_vars

\* a failure was reported on a path, calls on the other path followed, and
\* the path that failed still scores 1000 or more
FailedScoresHighUntilResetWitness ==
    \E name \in sfailed \ sreg :
        /\ slast.op \in {"update", "register"}
        /\ slast.name # name
        /\ slast.name \in DOMAIN paths
        /\ Score(paths[name]) >= 1000

\* C18: get_best_path returns None exactly when no path is registered, and
\* otherwise a registered name whose score is at most the score of every
\* registered path.
BestIsMinimum ==
    slast.op = "best" =>
        /\ slast.result = "None" <=> DOMAIN paths = {}
        /\ DOMAIN paths # {} =>
              /\ slast.result \in DOMAIN paths
              /\ \A m \in DOMAIN paths :
                    Score(paths[slast.result]) <= Score(paths[m])

\* get_best_path chose between two registered paths of different scores
BestIsMinimumWitness ==
    /\ slast.op = "best"
    /\ DOMAIN paths = PathNames
    /\ \E m \in PathNames : Score(paths[m]) > Score(paths[slast.result])

LoopPlain ==
    {ToBytes(Frame("Disconnect", 1, <<>>)), ToBytes(Frame("Padding", 2, <<>>))}

SecureLoopInit ==
    /\ SessStart
    /\ MuxStartFrom({Outage})
    /\ serverUp
    /\ cin = NoFrame
    /\ cbuf = <<>>
    /\ cres = NoResult
    /\ rside \in {"client", "server"}
    /\ rframes = <<>>
    /\ rwire = <<>>
    /\ rbuf = <<>>
    /\ rdisp = <<>>
    /\ rstat = "running"
    /\ ScorerIdle
    /\ HostIdle

\* the select! polls secure_conn.recv() / conn.recv(): only while the loop
\* runs, and after the last result was taken
LoopRecvCall ==
    /\ rstat = "running"
    /\ rlast = "none"
    /\ RecvCall

\* the branch body on recv's result: Ok(Some(data)) is appended to the
\* buffer, which is drained; Ok(None) and Err leave the loop (the client
\* breaks to its reconnection loop, the server returns from
\* handle_connection)
LoopTake ==
    /\ rstat = "running"
    /\ rpc = "idle"
    /\ rlast \in {"some", "eof", "error"}
    /\ IF rlast = "some"
       THEN LET d == Drain(rside, rbuf \o returned[Len(returned)], rdisp)
            IN  /\ rbuf' = d.buf
                /\ rdisp' = d.disp
                /\ rstat' = IF d.err THEN "ended" ELSE "running"
                /\ rlast' = "none"
       ELSE /\ rstat' = "ended"
            /\ UNCHANGED <<rbuf, rdisp, rlast>>
    /\ UNCHANGED <<seq_out, sent, wire, wclosed, lossy, buffer, seq_in, rpc,
                   returned, chunking>>
    /\ UNCHANGED <<muxVars, cin, cbuf, cres, rside, rframes, rwire, scorerVars,
                   hostVars>>

SecureLoopNext ==
    \/ \E data \in LoopPlain : Send(data)
    \/ CloseSend
    \/ RecordTamper
    \/ LoopRecvCall
    \/ RecvPacket
    \/ RecvNeedMore
    \/ RecvChunk
    \/ RecvEof
    \/ LoopTake

SecureLoopFair == WF_vars(LoopTake)

SpecSecureLoop == SecureLoopInit /\ [][SecureLoopNext]_vars /\ SecureLoopFair

\* C21: a recv that takes from the buffer a record that does not verify
\* under seq_in (it was sealed with another sequence) returns an error and
\* no plaintext; from then on nothing more is dispatched to handle_frame and
\* nothing more is returned, and the loop is left: the client breaks to its
\* reconnection loop, the server's tunnel task returns.
AeadFailureIsFatal ==
    /\ [][(rpc = "parse" /\ FullPacket(buffer) /\ rpc' = "idle"
              /\ seq_in \notin SealedWith(PacketChunk(buffer)))
             => /\ rlast' = "error"
                /\ returned' = returned]_vars
    /\ [][rlast = "error" =>
             /\ rlast' = "error"
             /\ rdisp' = rdisp
             /\ returned' = returned
             /\ rstat' \in {rstat, "ended"}]_vars
    /\ (rlast = "error") ~> (rstat = "ended")

\* the first record was returned and its frame dispatched; its duplicate
\* failed to verify and the loop was left with nothing more dispatched
AeadFailureIsFatalWitness ==
    /\ "duplicated" \in chunking
    /\ rlast = "error"
    /\ rstat = "ended"
    /\ Len(rdisp) = 1

(***************************************************************************)
(* EncryptedConnection::recv facing a length prefix larger than any record *)
(* a peer may send.                                                        *)
(***************************************************************************)
\* the largest record a session is to accept: 1 MiB.  recv compares the
\* prefix with nothing but the bytes buffered so far.
MaxRecordSize == 1024 * 1024

\* a peer writes a length prefix above the maximum and a few bytes after it
OversizeWrite ==
    /\ ~wclosed
    /\ ~lossy
    /\ wire' = wire \o PutU32(MaxRecordSize + 1) \o <<1, 2, 3>>
    /\ lossy' = TRUE
    /\ chunking' = chunking \cup {"oversize"}
    /\ UNCHANGED <<seq_out, sent, wclosed, buffer, seq_in, rpc, returned, rlast>>
    /\ UNCHANGED <<muxVars, frameVars>>

OversizeNext ==
    \/ \E data \in Plain : Send(data)
    \/ CloseSend
    \/ OversizeWrite
    \/ RecvCall
    \/ RecvPacket
    \/ RecvNeedMore
    \/ RecvChunk
    \/ RecvEof

SpecOversize == SessInit /\ [][OversizeNext]_vars

\* C22: when recv finds at the head of its buffer a length prefix above the
\* maximum record size, it returns an error at once; it does not go on to
\* read from the transport.
OversizePrefixIsFatal ==
    [][(rpc = "parse" /\ rpc' # "parse" /\ Len(buffer) >= LenPrefix
           /\ GetU32(buffer) > MaxRecordSize)
          => /\ rpc' = "idle"
             /\ rlast' = "error"]_vars

\* the Disconnect frames for stream i in a channel
DisconnectsOf(q, i) ==
    Cardinality({k \in 1..Len(q) : q[k].t = "Disconnect" /\ q[k].id = i})

\* C23: an error or EOF on the socket of one stream stays with that stream:
\* its task queues no second Disconnect once its to_tunnel half is done; a
\* step of a task whose socket is closed changes neither the session nor
\* another stream's map entry; and the id of a stream whose socket is closed
\* is eventually removed from the stream map, on the client (local socket)
\* and on the server (destination socket).
StreamErrorIsLocal ==
    /\ [][\A i \in Streams :
             /\ cs[i].to_tunnel = "done" =>
                   DisconnectsOf(c_tunnel', i) <= DisconnectsOf(c_tunnel, i)
             /\ (loc[i].closed /\ cs'[i] # cs[i]) =>
                   /\ session' = session
                   /\ link' = link
                   /\ c_streams' \ {i} = c_streams \ {i}]_vars
    /\ \A i \in Streams : (i \in c_streams /\ loc[i].closed) ~> (i \notin c_streams)
    /\ \A i \in Streams :
          (i \in ServerStreams /\ dst[i].closed) ~> (i \notin ServerStreams)

(***************************************************************************)
(* Dial failures on their own: multiplexed streams that send upstream, one *)
(* of whose destinations refuses the connection, on a tunnel that stays up.*)
(***************************************************************************)
DialRefused == Budget(MaxStreams, 1, 0, 0, 1, 0, 0)

DialInit == SessStart /\ MuxStartFrom({DialRefused}) /\ FramingIdle

DialNext ==
    \/ SupAttempt
    \/ SupRecvFrame
    \/ SupForward
    \/ AcceptStep
    \/ \E i \in Streams :
          \/ ClientRead(i)
          \/ ClientSendPadding(i)
          \/ ClientSendData(i)
          \/ ClientRecvNone(i)
    \/ SrvRecvFrame
    \/ SrvForward
    \/ \E i \in Streams :
          \/ DialOk(i)
          \/ DialFail(i)
          \/ DialFailDisconnect(i)
          \/ SrvRecv(i)
          \/ SrvWrite(i)

DialFair ==
    /\ WF_vars(SupAttempt)
    /\ WF_vars(SupRecvFrame)
    /\ WF_vars(SupForward)
    /\ WF_vars(SendConnect)
    /\ WF_vars(InsertStream)
    /\ WF_vars(SrvRecvFrame)
    /\ WF_vars(SrvForward)
    /\ \A i \in Streams :
          /\ WF_vars(ClientSendPadding(i))
          /\ WF_vars(ClientSendData(i))
          /\ WF_vars(ClientRecvNone(i))
          /\ WF_vars(DialOk(i))
          /\ WF_vars(DialFailDisconnect(i))
          /\ WF_vars(SrvRecv(i))
          /\ WF_vars(SrvWrite(i))

SpecDial == DialInit /\ [][DialNext]_vars /\ DialFair

\* the dial of stream i has failed (its task never started its two halves)
DialHasFailed(i) ==
    \/ ss[i].task = "dial_failed"
    \/ ss[i].task = "closed" /\ ss[i].to_tunnel = "none"

\* C24: when the dial for Connect(N) fails, the task queues one Disconnect(N)
\* on the tunnel channel and ends, and queues none after that; N never has a
\* sender in the stream map; and the failure and the Disconnect change
\* neither the session nor any other stream.
DialFailureIsLocal ==
    /\ [](\A i \in Streams : DialHasFailed(i) => i \notin ServerStreams)
    /\ [][\A i \in Streams :
             /\ (ss[i].task = "dial_failed" /\ ss'[i].task = "closed") =>
                   s_tunnel' = Append(s_tunnel, Frame("Disconnect", i, <<>>))
             /\ (ss[i].task = "closed" /\ DialHasFailed(i)) =>
                   DisconnectsOf(s_tunnel', i) <= DisconnectsOf(s_tunnel, i)
             /\ (ss'[i] # ss[i] /\ DialHasFailed(i)') =>
                   /\ ssup' = ssup
                   /\ link' = link
                   /\ session' = session
                   /\ \A j \in Streams \ {i} : ss'[j] = ss[j]]_vars
    /\ \A i \in Streams : (ss[i].task = "dial_failed") ~> (ss[i].task = "closed")

\* the dial of one stream failed and its Disconnect reached the client,
\* while the other stream's data was written to its destination
DialFailureIsLocalWitness ==
    \E i, j \in Streams :
        /\ i # j
        /\ ss[i].task = "closed"
        /\ DialHasFailed(i)
        /\ i \notin c_streams
        /\ cs[i].from_tunnel = "done"
        /\ dst[j].written # <<>>
        /\ link = "up"

\* a step of the receiving supervisor that takes the head frame of q
TakesFrame(q, qn) == q # <<>> /\ qn = Tail(q) /\ link = "up" /\ env' = env /\ paths' = paths

\* C25: a Data frame for a stream that is gone is discarded.  When the
\* server's (the client's) supervisor takes from the session a Data frame
\* whose id has no sender in the stream map, handle_frame returns and the
\* data loop goes on: no stream record and no map entry changes and the
\* session stays as it was.  The same holds when a send that was waiting for
\* room on the server completes because the task has dropped its receiver.
DataForGoneStreamDiscarded ==
    [][/\ (TakesFrame(c2s, c2s') /\ ssup = "data" /\ Head(c2s).t = "Data"
             /\ RouteId(Head(c2s)) \notin ServerStreams)
          => /\ ss' = ss
             /\ ssup' = "data"
             /\ link' = link
             /\ session' = session
       /\ (TakesFrame(s2c, s2c') /\ csup = "data" /\ Head(s2c).t = "Data"
             /\ RouteId(Head(s2c)) \notin c_streams)
          => /\ cs' = cs
             /\ c_streams' = c_streams
             /\ csup' = "data"
             /\ c_mutex' = c_mutex
             /\ link' = link
             /\ session' = session
       /\ (ssup = "hf_send" /\ ssup' = "data" /\ ss[RouteId(ssupf)].task = "closed")
          => /\ ss' = ss
             /\ link' = link
             /\ session' = session]_vars

\* the dial of a stream failed; the Data frame the client had sent for it
\* was taken by the server, and the session runs on
DataForGoneStreamDiscardedWitness ==
    \E i \in Streams :
        /\ DialHasFailed(i)
        /\ ss[i].task = "closed"
        /\ loc[i].reads >= 1
        /\ cs[i].to_tunnel = "read"
        /\ c_tunnel = <<>>
        /\ c2s = <<>>
        /\ csup = "data"
        /\ ssup = "data"
        /\ link = "up"
        /\ session = 1

(***************************************************************************)
(* The client process under SIGINT.  main awaits tokio::signal::ctrl_c()   *)
(* in one place, branch A of the data loop's select!; the reconnection     *)
(* loop awaits connect, the handshake and the backoff sleep with no        *)
(* signal branch.  Until ctrl_c() is first called the signal has its       *)
(* default disposition and ends the process; from then on the runtime's    *)
(* handler takes it and wakes the ctrl_c() future of a pending select!,    *)
(* if there is one: a future created later sees later signals only.        *)
(***************************************************************************)
\* SIGINTs delivered in one run
MaxSignals == 1

\* SystemProxy::disable, on the setting
Disable(active) == FALSE

\* the user presses Ctrl-C; in the data loop the select! wakes on branch A:
\* sys_proxy.disable(); return Ok(())
SigInt ==
    /\ shut = "running"
    /\ sigints < MaxSignals
    /\ sigints' = sigints + 1
    /\ IF session = 0
       THEN /\ shut' = "killed"
            /\ UNCHANGED sysproxy
       ELSE IF csup = "data"
            THEN /\ sysproxy' = Disable(sysproxy)
                 /\ shut' = "returned"
            ELSE UNCHANGED <<shut, sysproxy>>
    /\ UNCHANGED <<sessVars, muxVars, cin, cbuf, cres, rside, rframes, rwire,
                   rbuf, rdisp, rstat, scorerVars, acceptVars, mimicVars,
                   hsVars, loopVars, injected>>

ShutdownNext ==
    \/ SigInt
    \/ shut = "running" /\ ReconnectNext

ShutdownFair ==
    /\ WF_vars(shut = "running" /\ SupAttempt)
    /\ WF_vars(shut = "running" /\ SupForward)
    /\ WF_vars(shut = "running" /\ SupSendDead)
    /\ WF_vars(shut = "running" /\ SupBreak)

SpecShutdown == ReconnectInit /\ [][ShutdownNext]_vars /\ ShutdownFair

\* C26: whenever a SIGINT has been delivered to the client, the client
\* eventually disables the system proxy and returns from main.
ShutdownOnSignal == (sigints > 0) ~> (shut = "returned" /\ ~sysproxy)

(***************************************************************************)
(* The server's accept side.  A listener task per transport accepts raw    *)
(* connections and sends them down a channel; the main loop takes each one *)
(* and spawns a task that runs the server handshake under a 5 s timeout    *)
(* and, if it succeeds, handle_connection, which builds the ServerProxy.   *)
(* A peer is "hello" (sends a valid mimic hello), "garbage" (sends bytes   *)
(* decapsulate rejects), "close" (closes before sending) or "silent".      *)
(***************************************************************************)
AcceptChanCap == 100

Peers == {"hello", "garbage", "close", "silent"}

\* EncryptedConnection::new(raw, true, mimic) against the peer, as far as
\* the bytes that have arrived decide it
ServerHandshake(peer) ==
    CASE peer = "hello" -> "Ok"
      [] peer = "garbage" -> "Err"
      [] peer = "close" -> "Err"
      [] OTHER -> "Pending"

\* the arms of the match, with an engine built before the result is known
SpawnedArmServeAll(conn, result) ==
    CASE result = "Ok" -> [conn EXCEPT !.st = "engine", !.engine = TRUE]
      [] result = "Err" ->
           [conn EXCEPT !.st = "closed", !.why = "failed", !.engine = TRUE]
      [] OTHER ->
           [conn EXCEPT !.st = "closed", !.why = "timeout", !.engine = TRUE]

\* the arms of the match on timeout(5 s, handshake)
SpawnedArm(conn, result) ==
    CASE result = "Ok" -> [conn EXCEPT !.st = "engine", !.engine = TRUE]
      [] result = "Err" -> [conn EXCEPT !.st = "closed", !.why = "failed"]
      [] OTHER -> [conn EXCEPT !.st = "closed", !.why = "timeout"]

AcceptRest ==
    <<sessVars, muxVars, cin, cbuf, cres, rside, rframes, rwire, rbuf, rdisp,
      rstat, scorerVars, shutVars, mimicVars, hsVars, loopVars, injected>>

\* listener.accept() then tx.send(connection)
ListenerAccept(c, peer) ==
    /\ sconn[c].st = "none"
    /\ Len(acceptq) < AcceptChanCap
    /\ sconn' = [sconn EXCEPT ![c] = [@ EXCEPT !.st = "queued", !.peer = peer]]
    /\ acceptq' = Append(acceptq, c)
    /\ UNCHANGED AcceptRest

\* rx.recv() in the main loop, then tokio::spawn
MainSpawn ==
    /\ acceptq # <<>>
    /\ sconn' = [sconn EXCEPT ![Head(acceptq)] = [@ EXCEPT !.st = "handshake"]]
    /\ acceptq' = Tail(acceptq)
    /\ UNCHANGED AcceptRest

\* the handshake future completes before the timer
HandshakeDone(c) ==
    /\ sconn[c].st = "handshake"
    /\ ServerHandshake(sconn[c].peer) # "Pending"
    /\ sconn' = [sconn EXCEPT
                   ![c] = SpawnedArm(@, ServerHandshake(sconn[c].peer))]
    /\ UNCHANGED <<acceptq, AcceptRest>>

\* the 5 s timer fires first
HandshakeTimeout(c) ==
    /\ sconn[c].st = "handshake"
    /\ sconn' = [sconn EXCEPT ![c] = SpawnedArm(@, "Elapsed")]
    /\ UNCHANGED <<acceptq, AcceptRest>>

\* handle_connection returns and the task ends
ConnectionEnd(c) ==
    /\ sconn[c].st = "engine"
    /\ sconn' = [sconn EXCEPT ![c] = [@ EXCEPT !.st = "closed", !.why = "done"]]
    /\ UNCHANGED <<acceptq, AcceptRest>>

AcceptNext ==
    \/ \E c \in Conns, peer \in Peers : ListenerAccept(c, peer)
    \/ MainSpawn
    \/ \E c \in Conns : HandshakeDone(c)
    \/ \E c \in Conns : HandshakeTimeout(c)
    \/ \E c \in Conns : ConnectionEnd(c)

AcceptFair ==
    /\ WF_vars(MainSpawn)
    /\ \A c \in Conns : WF_vars(HandshakeDone(c))
    /\ \A c \in Conns : WF_vars(HandshakeTimeout(c))

SpecAccept == ScorerInit /\ [][AcceptNext]_vars /\ AcceptFair

\* C27: a raw connection whose handshake timed out or failed is dropped and
\* never had a mux engine, and whatever the other connections do, every
\* accepted connection is eventually taken by the main loop and its
\* handshake eventually ends in an engine or a drop.
FailedHandshakeDropped ==
    /\ [](\A c \in Conns :
            sconn[c].why \in {"failed", "timeout"}
                => sconn[c].st = "closed" /\ ~sconn[c].engine)
    /\ \A c \in Conns :
         /\ (sconn[c].st = "queued") ~> (sconn[c].st = "handshake")
         /\ (sconn[c].st = "handshake") ~> (sconn[c].st \in {"engine", "closed"})

FailedHandshakeDroppedWitness ==
    /\ sconn[1].why = "timeout"
    /\ sconn[2].why = "failed"
    /\ sconn[3].st = "engine"
    /\ sconn[3].engine

(***************************************************************************)
(* HttpMimic.  Packets and texts are sequences of byte values; the literal *)
(* parts of the two envelopes are written out as their ASCII codes.        *)
(***************************************************************************)
\* "GET /api/v1/resource/"
GetPrefix ==
    <<71, 69, 84, 32, 47, 97, 112, 105, 47, 118, 49, 47, 114, 101, 115,
      111, 117, 114, 99, 101, 47>>

\* " HTTP/1.1"
HttpMark ==
    <<32, 72, 84, 84, 80, 47, 49, 46, 49>>

\* "\r\nHost: cdn.example.com\r\nUser-Agent: Chimera/1.0\r\n
\*  Connection: keep-alive\r\n\r\n"
RequestTail ==
    <<13, 10, 72, 111, 115, 116, 58, 32, 99, 100, 110, 46, 101, 120, 97,
      109, 112, 108, 101, 46, 99, 111, 109, 13, 10, 85, 115, 101, 114, 45,
      65, 103, 101, 110, 116, 58, 32, 67, 104, 105, 109, 101, 114, 97, 47,
      49, 46, 48, 13, 10, 67, 111, 110, 110, 101, 99, 116, 105, 111, 110,
      58, 32, 107, 101, 101, 112, 45, 97, 108, 105, 118, 101, 13, 10, 13,
      10>>

\* "HTTP/1.1 200 OK\r\nServer: Chuck/1.0\r\nContent-Type: text/html\r\n
\*  Content-Length: 0\r\n"
ResponseHead ==
    <<72, 84, 84, 80, 47, 49, 46, 49, 32, 50, 48, 48, 32, 79, 75, 13, 10,
      83, 101, 114, 118, 101, 114, 58, 32, 67, 104, 117, 99, 107, 47, 49,
      46, 48, 13, 10, 67, 111, 110, 116, 101, 110, 116, 45, 84, 121, 112,
      101, 58, 32, 116, 101, 120, 116, 47, 104, 116, 109, 108, 13, 10, 67,
      111, 110, 116, 101, 110, 116, 45, 76, 101, 110, 103, 116, 104, 58,
      32, 48, 13, 10>>

\* "X-Data: "
XData ==
    <<88, 45, 68, 97, 116, 97, 58, 32>>

\* "\r\n"
CrLf == <<13, 10>>

\* the standard alphabet, with '+' and '/' for 62 and 63
B64CharStandard(s) ==
    IF s < 26 THEN 65 + s
    ELSE IF s < 52 THEN 97 + (s - 26)
    ELSE IF s < 62 THEN 48 + (s - 52)
    ELSE IF s = 62 THEN 43 ELSE 47

\* URL_SAFE alphabet: A-Z a-z 0-9 - _
B64Char(s) ==
    IF s < 26 THEN 65 + s
    ELSE IF s < 52 THEN 97 + (s - 26)
    ELSE IF s < 62 THEN 48 + (s - 52)
    ELSE IF s = 62 THEN 45 ELSE 95

\* the sextet of a character of the URL_SAFE alphabet, 64 for any other
B64Value(c) ==
    IF c >= 65 /\ c <= 90 THEN c - 65
    ELSE IF c >= 97 /\ c <= 122 THEN c - 97 + 26
    ELSE IF c >= 48 /\ c <= 57 THEN c - 48 + 52
    ELSE IF c = 45 THEN 62
    ELSE IF c = 95 THEN 63 ELSE 64

RECURSIVE B64Encode(_)
\* URL_SAFE_NO_PAD.encode
B64Encode(b) ==
    IF Len(b) = 0 THEN <<>>
    ELSE IF Len(b) = 1
    THEN <<B64Char(b[1] \div 4), B64Char((b[1] % 4) * 16)>>
    ELSE IF Len(b) = 2
    THEN <<B64Char(b[1] \div 4), B64Char((b[1] % 4) * 16 + b[2] \div 16),
           B64Char((b[2] % 16) * 4)>>
    ELSE <<B64Char(b[1] \div 4), B64Char((b[1] % 4) * 16 + b[2] \div 16),
           B64Char((b[2] % 16) * 4 + b[3] \div 64), B64Char(b[3] % 64)>>
         \o B64Encode(SubSeq(b, 4, Len(b)))

RECURSIVE B64Bytes(_)
\* the bytes of a sequence of sextets
B64Bytes(x) ==
    IF Len(x) < 2 THEN <<>>
    ELSE IF Len(x) = 2 THEN <<x[1] * 4 + x[2] \div 16>>
    ELSE IF Len(x) = 3
    THEN <<x[1] * 4 + x[2] \div 16, (x[2] % 16) * 16 + x[3] \div 4>>
    ELSE <<x[1] * 4 + x[2] \div 16, (x[2] % 16) * 16 + x[3] \div 4,
           (x[3] % 4) * 64 + x[4]>>
         \o B64Bytes(SubSeq(x, 5, Len(x)))

\* URL_SAFE_NO_PAD.decode: a character outside the alphabet (padding
\* included), an impossible length or non-zero trailing bits are errors
B64Decode(t) ==
    LET x == [i \in 1..Len(t) |-> B64Value(t[i])]
        n == Len(t)
    IN  IF \/ \E i \in 1..n : x[i] = 64
           \/ n % 4 = 1
           \/ n % 4 = 2 /\ x[n] % 16 # 0
           \/ n % 4 = 3 /\ x[n] % 4 # 0
        THEN [kind |-> "Err", v |-> <<>>]
        ELSE [kind |-> "Some", v |-> B64Bytes(x)]

\* String::from_utf8_lossy on packets whose bytes from 128 up are all
\* invalid UTF-8: each becomes U+FFFD
Lossy(packet) ==
    [i \in 1..Len(packet) |-> IF packet[i] < 128 THEN packet[i] ELSE 65533]

\* str::find from a position on: the first index at or after from where pat
\* starts, 0 if there is none
Find(text, pat, from) ==
    LET at == {i \in from..(Len(text) - Len(pat) + 1) :
                 SubSeq(text, i, i + Len(pat) - 1) = pat}
    IN  IF at = {} THEN 0 ELSE CHOOSE i \in at : \A j \in at : i <= j

\* HttpMimic::encapsulate
Encapsulate(payload, is_server) ==
    IF is_server
    THEN ResponseHead \o XData \o B64Encode(payload) \o CrLf \o CrLf
    ELSE GetPrefix \o B64Encode(payload) \o HttpMark \o RequestTail

\* HttpMimic::decapsulate: "Some" with the payload, "None", or "Err"
Decapsulate(packet) ==
    LET text == Lossy(packet)
        gs == Find(text, GetPrefix, 1)
        ge == IF gs = 0 THEN 0 ELSE Find(text, HttpMark, gs)
        xs == Find(text, XData, 1)
        xe == IF xs = 0 THEN 0 ELSE Find(text, CrLf, xs)
    IN  IF gs # 0 /\ ge # 0
        THEN B64Decode(SubSeq(text, gs + Len(GetPrefix), ge - 1))
        ELSE IF xs # 0 /\ xe # 0
        THEN B64Decode(SubSeq(text, xs + Len(XData), xe - 1))
        ELSE [kind |-> "None", v |-> <<>>]

\* bytes of an X25519 public key
KeyLen == 32

\* keys are taken as b, b + a, b + 2a, ... with a up to MaxStride
MaxStride == 4

KeyStarts == {0, 1, 62, 63, 127, 128, 251, 255}

Keys ==
    {[i \in 1..KeyLen |-> (b + a * (i - 1)) % 256] :
       a \in 0..MaxStride, b \in KeyStarts}

\* packets that are not envelopes: empty, binary, other requests, an
\* unterminated resource path, a header name without its separator
ForeignPackets ==
    {<<>>,
     <<255, 0, 71, 69, 84>>,
     SubSeq(GetPrefix, 1, 5) \o HttpMark \o CrLf \o CrLf,
     SubSeq(GetPrefix, 2, Len(GetPrefix)) \o <<65, 65>> \o HttpMark,
     SubSeq(XData, 1, 7) \o <<65, 65>> \o CrLf,
     ResponseHead \o CrLf,
     GetPrefix \o <<65, 65>>,
     XData \o <<65, 65>>}

MimicRest ==
    <<sessVars, muxVars, cin, cbuf, cres, rside, rframes, rwire, rbuf, rdisp,
      rstat, scorerVars, shutVars, acceptVars, hsVars, loopVars, injected>>

\* m.encapsulate(&my_public, is_server)
MimicEncapsulate(pk, is_server) ==
    /\ mcall' = [op |-> "encapsulate", pk |-> pk, is_server |-> is_server]
    /\ mtext' = Encapsulate(pk, is_server)
    /\ mres' = [kind |-> "none", v |-> <<>>]
    /\ UNCHANGED MimicRest

\* a packet from elsewhere arrives
MimicForeign(packet) ==
    /\ mcall' = [op |-> "foreign", pk |-> <<>>, is_server |-> FALSE]
    /\ mtext' = packet
    /\ mres' = [kind |-> "none", v |-> <<>>]
    /\ UNCHANGED MimicRest

\* m.decapsulate(&received_data)
MimicDecapsulate ==
    /\ mcall.op # "none"
    /\ mres.kind = "none"
    /\ mres' = Decapsulate(mtext)
    /\ UNCHANGED <<mcall, mtext, MimicRest>>

MimicNext ==
    \/ \E pk \in Keys, is_server \in BOOLEAN : MimicEncapsulate(pk, is_server)
    \/ \E packet \in ForeignPackets : MimicForeign(packet)
    \/ MimicDecapsulate

SpecMimic == ScorerInit /\ [][MimicNext]_vars

\* C28: decapsulate of the envelope encapsulate made of a 32-byte key
\* returns exactly that key, for the client's GET envelope and for the
\* server's 200 OK envelope, and decapsulate returns None for a packet that
\* has neither the GET resource prefix nor an X-Data header in it.
MimicRoundTrip ==
    mres.kind # "none" =>
        /\ mcall.op = "encapsulate" => mres = [kind |-> "Some", v |-> mcall.pk]
        /\ (/\ Find(Lossy(mtext), GetPrefix, 1) = 0
            /\ Find(Lossy(mtext), XData, 1) = 0) => mres.kind = "None"

MimicRoundTripWitness ==
    /\ mcall.op = "encapsulate"
    /\ mcall.is_server
    /\ mcall.pk[1] = 255
    /\ mcall.pk[2] = 3
    /\ mres = [kind |-> "Some", v |-> mcall.pk]

(***************************************************************************)
(* The handshake.  The key agreement is modelled by Diffie-Hellman in the  *)
(* integers modulo a small prime; a public key travels as KeyLen bytes.    *)
(* The transport is a reliable byte stream: Connection::recv returns the   *)
(* next 1 to RecvBufSize bytes that have arrived, in order, none lost.     *)
(***************************************************************************)
DhPrime == 251

DhBase == 6

\* private keys the endpoints may generate
MaxPriv == 3

RECURSIVE DhPow(_, _)
DhPow(g, e) == IF e = 0 THEN 1 ELSE (g * DhPow(g, e - 1)) % DhPrime

\* private_key.compute_public_key(), as the bytes that are sent
PublicKey(priv) ==
    [i \in 1..KeyLen |-> IF i = 1 THEN DhPow(DhBase, priv) ELSE 0]

\* ChimeraCrypto::derive_secret; 0 stands for "Key agreement failed"
DeriveSecret(priv, peer_public) ==
    IF Len(peer_public) # KeyLen THEN 0 ELSE DhPow(peer_public[1], priv)

\* the end of EncryptedConnection::new once peer_public is known
Finish(e, peer_public) ==
    IF DeriveSecret(e.priv, peer_public) = 0
    THEN [e EXCEPT !.st = "failed"]
    ELSE [e EXCEPT !.st = "done",
                   !.secret = DeriveSecret(e.priv, peer_public),
                   !.seq_in = 0, !.seq_out = 0]

\* sizes of the chunks the transport hands to recv: the bytes that have
\* arrived, up to one of these
ChunkSizes == {1, 21, 32, 64, 100, 128, RecvBufSize}

Chunks(pending) == {Min(k, Len(pending)) : k \in ChunkSizes} \ {0}

HandshakeRest ==
    <<sessVars, muxVars, cin, cbuf, cres, rside, rframes, rwire, rbuf, rdisp,
      rstat, scorerVars, shutVars, acceptVars, mimicVars, loopVars,
      injected>>

\* client: generate the key pair, encapsulate, inner.send
HsClientSend(priv) ==
    /\ hcli.st = "start"
    /\ hcli' = [hcli EXCEPT !.st = "recv", !.priv = priv, !.sends = @ + 1,
                            !.order = Append(@, "send")]
    /\ hc2s' = hc2s \o Encapsulate(PublicKey(priv), FALSE)
    /\ UNCHANGED <<hsrv, hs2c, HandshakeRest>>

\* client: inner.recv returns a chunk; decapsulate; derive the secret
HsClientRecv(n) ==
    /\ hcli.st = "recv"
    /\ n \in Chunks(hs2c)
    /\ LET got == Decapsulate(TakeBytes(hs2c, n))
           e == [hcli EXCEPT !.recvs = @ + 1, !.order = Append(@, "recv")]
       IN  hcli' = IF got.kind = "Some" THEN Finish(e, got.v)
                   ELSE [e EXCEPT !.st = "failed"]
    /\ hs2c' = DropBytes(hs2c, n)
    /\ UNCHANGED <<hsrv, hc2s, HandshakeRest>>

\* client: inner.recv returns None, the server end has been dropped
HsClientEof ==
    /\ hcli.st = "recv"
    /\ hs2c = <<>>
    /\ hsrv.st = "failed"
    /\ hcli' = [hcli EXCEPT !.st = "failed", !.recvs = @ + 1,
                            !.order = Append(@, "recv")]
    /\ UNCHANGED <<hsrv, hc2s, hs2c, HandshakeRest>>

\* server: generate the key pair; inner.recv returns a chunk; decapsulate
HsServerRecv(priv, n) ==
    /\ hsrv.st = "start"
    /\ n \in Chunks(hc2s)
    /\ LET got == Decapsulate(TakeBytes(hc2s, n))
           e == [hsrv EXCEPT !.priv = priv, !.recvs = @ + 1,
                             !.order = Append(@, "recv")]
       IN  hsrv' = IF got.kind = "Some"
                   THEN [e EXCEPT !.st = "send", !.secret = got.v[1]]
                   ELSE [e EXCEPT !.st = "failed"]
    /\ hc2s' = DropBytes(hc2s, n)
    /\ UNCHANGED <<hcli, hs2c, HandshakeRest>>

\* server: encapsulate, inner.send, derive the secret
HsServerSend ==
    /\ hsrv.st = "send"
    /\ hs2c' = hs2c \o Encapsulate(PublicKey(hsrv.priv), TRUE)
    /\ hsrv' = Finish([hsrv EXCEPT !.sends = @ + 1,
                                   !.order = Append(@, "send")],
                      [i \in 1..KeyLen |-> IF i = 1 THEN hsrv.secret ELSE 0])
    /\ UNCHANGED <<hcli, hc2s, HandshakeRest>>

HandshakeNext ==
    \/ \E priv \in 1..MaxPriv : HsClientSend(priv)
    \/ \E n \in Chunks(hs2c) : HsClientRecv(n)
    \/ HsClientEof
    \/ \E priv \in 1..MaxPriv, n \in Chunks(hc2s) : HsServerRecv(priv, n)
    \/ HsServerSend

HandshakeFair ==
    /\ WF_vars(\E priv \in 1..MaxPriv : HsClientSend(priv))
    /\ WF_vars(\E n \in Chunks(hs2c) : HsClientRecv(n))
    /\ WF_vars(HsClientEof)
    /\ WF_vars(\E priv \in 1..MaxPriv, n \in Chunks(hc2s) :
                 HsServerRecv(priv, n))
    /\ WF_vars(HsServerSend)

SpecHandshake == ScorerInit /\ [][HandshakeNext]_vars /\ HandshakeFair

\* C29: the handshake always terminates: the client sends and then reads,
\* the server reads and then sends, one message goes each way, and in the
\* end both endpoints are done with the same secret and both sequence
\* numbers at 0.
HandshakeAgrees ==
    /\ [](/\ hcli.order \in {<<>>, <<"send">>, <<"send", "recv">>}
          /\ hsrv.order \in {<<>>, <<"recv">>, <<"recv", "send">>})
    /\ <>[](/\ hcli.st = "done"
            /\ hsrv.st = "done"
            /\ hcli.sends = 1
            /\ hsrv.sends = 1
            /\ hcli.secret = hsrv.secret
            /\ hcli.seq_in = 0 /\ hcli.seq_out = 0
            /\ hsrv.seq_in = 0 /\ hsrv.seq_out = 0)

\* C30: recv returns Ok(None) only on end of stream with an empty buffer;
\* on end of stream with a partial record in the buffer it returns an error;
\* neither return advances seq_in.
EofOnlyOnEmptyBuffer ==
    [][/\ (rlast' = "eof" /\ rlast # "eof")
            => /\ rpc = "await" /\ wire = <<>> /\ wclosed
               /\ buffer = <<>>
               /\ seq_in' = seq_in
       /\ (/\ rpc = "await" /\ rpc' = "idle" /\ rlast' # rlast
           /\ wire = <<>> /\ wclosed /\ buffer # <<>>)
            => /\ rlast' = "error"
               /\ seq_in' = seq_in
               /\ buffer' = buffer]_vars

EofOnlyOnEmptyBufferWitness ==
    /\ rlast = "error"
    /\ rpc = "idle"
    /\ wclosed /\ wire = <<>>
    /\ buffer # <<>> /\ ~FullPacket(buffer)
    /\ seq_in = 1

\* C31: in a client stream task both loops end when either side closes:
\* once the server's Disconnect for a stream has been handled and the
\* tunnel-to-local loop is over, the task reads nothing more from the local
\* socket and ends, closing the socket, even if the application never
\* closes it; and once the local-to-tunnel loop is over, the
\* tunnel-to-local loop ends too, Disconnect from the server or not.
BothLoopsTerminate ==
    /\ [][\A i \in Streams :
             (cs[i].task = "run" /\ cs[i].from_tunnel = "done")
                => loc'[i].reads = loc[i].reads]_vars
    /\ \A i \in Streams :
          (cs[i].task = "run" /\ cs[i].from_tunnel = "done")
             ~> (cs[i].task = "closed" /\ loc[i].closed)
    /\ \A i \in Streams :
          (cs[i].task = "run" /\ cs[i].to_tunnel = "done")
             ~> (cs[i].from_tunnel = "done")

(***************************************************************************)
(* The connection attempts of the reconnection loop, one await at a time:  *)
(* get_best_path, transport.connect, EncryptedConnection::new, the router  *)
(* call of the arm taken, then the 1 s sleep or the data loop.             *)
(***************************************************************************)
\* attempts made in one run
MaxAttempts == 12

\* the router call of an arm, none after a failed handshake
ArmCallQuietHandshake(result) ==
    CASE result = "Established" -> "update_latency"
      [] result = "HandshakeErr" -> "none"
      [] OTHER -> "report_failure"

\* the router call of each arm of the two matches
ArmCall(result) ==
    CASE result = "Established" -> "update_latency"
      [] result = "HandshakeErr" -> "report_failure"
      [] OTHER -> "report_failure"

\* the router after the call
ArmRouter(p, call, name) ==
    CASE call = "update_latency" -> UpdateLatency(p, name, 50000)
      [] call = "report_failure" -> ReportFailure(p, name)
      [] OTHER -> p

\* the calls of the attempt after the call
ArmFeedback(f, call, name) ==
    IF call = "none" THEN f ELSE Append(f, [op |-> call, name |-> name])

AttemptRest ==
    <<csup, csupf, session, link, serverUp, cliVars, srvVars, env, sessVars,
      cin, cbuf, cres, rside, rframes, rwire, rbuf, rdisp, rstat, scorerVars,
      shutVars, acceptVars, mimicVars, hsVars, injected>>

\* attempt += 1; router.get_best_path().unwrap_or("TCP")
AttemptSelect ==
    /\ aphase = "select"
    /\ tries < MaxAttempts
    /\ attempt' = attempt + 1
    /\ tries' = tries + 1
    /\ \E name \in SelectedPaths(paths) : chosen' = name
    /\ feedback' = <<>>
    /\ aphase' = "connect"
    /\ UNCHANGED <<paths, AttemptRest>>

\* the end of an arm: the router call, then the sleep or break conn
AttemptArm(result) ==
    /\ paths' = ArmRouter(paths, ArmCall(result), chosen)
    /\ feedback' = ArmFeedback(feedback, ArmCall(result), chosen)
    /\ aphase' = IF result = "Established" THEN "data" ELSE "sleep"
    /\ UNCHANGED <<attempt, chosen, tries, AttemptRest>>

\* transport.connect(addr).await
AttemptConnect(up) ==
    /\ aphase = "connect"
    /\ IF ConnectSucceeds(chosen, up)
       THEN /\ aphase' = "handshake"
            /\ UNCHANGED <<paths, attempt, chosen, tries, feedback, AttemptRest>>
       ELSE AttemptArm("ConnectErr")

\* EncryptedConnection::new(raw_conn, false, mimic).await
AttemptHandshake(ok) ==
    /\ aphase = "handshake"
    /\ AttemptArm(IF ok THEN "Established" ELSE "HandshakeErr")

\* sleep(1000 ms), then the next attempt
AttemptSleep ==
    /\ aphase = "sleep"
    /\ aphase' = "select"
    /\ UNCHANGED <<paths, attempt, chosen, tries, feedback, AttemptRest>>

\* the data loop breaks: back to the outer loop, let mut attempt = 0
AttemptTunnelLost ==
    /\ aphase = "data"
    /\ aphase' = "select"
    /\ attempt' = 0
    /\ UNCHANGED <<paths, chosen, tries, feedback, AttemptRest>>

AttemptsInit ==
    /\ SessStart
    /\ TunnelStart({Outage}, RouterSetup)
    /\ serverUp
    /\ FramingIdle

AttemptsNext ==
    \/ AttemptSelect
    \/ \E up \in BOOLEAN : AttemptConnect(up)
    \/ \E ok \in BOOLEAN : AttemptHandshake(ok)
    \/ AttemptSleep
    \/ AttemptTunnelLost

SpecAttempts == AttemptsInit /\ [][AttemptsNext]_vars

\* C32: every attempt gives the scorer exactly one feedback event, for the
\* path the attempt selected, a path the scorer knows: update_latency when
\* the tunnel is established, report_failure when connect or the handshake
\* failed; and an attempt's step changes no other path's statistics.
OneFeedbackPerAttempt ==
    [][/\ (aphase \in {"connect", "handshake"} /\ aphase' # aphase
             /\ aphase' \in {"sleep", "data"})
          => /\ feedback = <<>>
             /\ Len(feedback') = 1
             /\ feedback'[1].name = chosen
             /\ chosen \in DOMAIN paths
             /\ feedback'[1].op =
                   IF aphase' = "data" THEN "update_latency" ELSE "report_failure"
             /\ paths' = IF aphase' = "data"
                         THEN UpdateLatency(paths, chosen, 50000)
                         ELSE ReportFailure(paths, chosen)
       /\ (aphase \in {"connect", "handshake"} /\ aphase' = "handshake")
          => feedback' = <<>> /\ paths' = paths
       /\ \A n \in DOMAIN paths : n # chosen' => paths'[n] = paths[n]]_vars

OneFeedbackPerAttemptWitness ==
    /\ tries = 3
    /\ attempt = 1
    /\ aphase = "sleep"
    /\ chosen = "TCP"
    /\ feedback = <<[op |-> "report_failure", name |-> "TCP"]>>

(***************************************************************************)
(* Frames an engine ignores.  The client's own streams put Padding on the  *)
(* tunnel; beyond that the remote end of a tunnel may send any frame, so   *)
(* Padding and Connect frames are put on the wire towards the client and   *)
(* Padding frames towards the server, for known and unknown stream ids.    *)
(***************************************************************************)
\* frames put on the tunnel out of turn in one run
MaxInject == 2

\* one stream that sends once and gets one reply
PaddedTraffic == Budget(1, 1, 1, 0, 0, 0, 0)

IgnoredFrames(dir) ==
    {Frame("Padding", i, <<"pad">>) : i \in Streams}
        \cup (IF dir = "client"
              THEN {Frame("Connect", i, <<"t">>) : i \in Streams}
              ELSE {})

\* the peer writes a frame the receiving engine has no use for
TunnelInject(dir, f) ==
    /\ link = "up"
    /\ Len(injected) < MaxInject
    /\ injected' = Append(injected, [dir |-> dir, f |-> f])
    /\ IF dir = "client"
       THEN s2c' = Append(s2c, f) /\ c2s' = c2s
       ELSE c2s' = Append(c2s, f) /\ s2c' = s2c
    /\ UNCHANGED <<paths, csup, csupf, session, link, serverUp, cliVars, ssup,
                   ssupf, s_tunnel, ss, dst, env, sessVars, cin, cbuf, cres,
                   rside, rframes, rwire, rbuf, rdisp, rstat, scorerVars,
                   shutVars, acceptVars, mimicVars, hsVars, loopVars>>

IgnoredInit == SessStart /\ MuxStartFrom({PaddedTraffic}) /\ FramingIdle

IgnoredNext ==
    \/ SupAttempt
    \/ SupRecvFrame
    \/ SupForward
    \/ AcceptStep
    \/ \E i \in Streams :
          \/ ClientRead(i)
          \/ ClientSendPadding(i)
          \/ ClientSendData(i)
          \/ ClientRecv(i)
          \/ ClientWrite(i)
    \/ SrvRecvFrame
    \/ SrvForward
    \/ \E i \in Streams :
          \/ DialOk(i)
          \/ SrvRead(i)
          \/ SrvSendData(i)
          \/ SrvRecv(i)
          \/ SrvWrite(i)
    \/ \E dir \in {"client", "server"} :
          \E f \in IgnoredFrames(dir) : TunnelInject(dir, f)

SpecIgnored == IgnoredInit /\ [][IgnoredNext]_vars

\* C33: handling a Padding frame (either engine) or a Connect frame (client
\* engine) returns Ok and changes nothing: the stream map, the stream
\* channels, the tunnel channel and every socket are as before, and no
\* padding or stray Connect payload is ever written to a socket.
IgnoredFramesChangeNothing ==
    /\ [][/\ (TakesFrame(s2c, s2c') /\ csup = "data"
                /\ Head(s2c).t \in {"Padding", "Connect"})
             => /\ c_streams' = c_streams
                /\ cs' = cs
                /\ c_tunnel' = c_tunnel
                /\ loc' = loc
                /\ csup' = "data"
                /\ link' = link
          /\ (TakesFrame(c2s, c2s') /\ ssup = "data" /\ Head(c2s).t = "Padding")
             => /\ ss' = ss
                /\ s_tunnel' = s_tunnel
                /\ dst' = dst
                /\ ssup' = "data"
                /\ link' = link]_vars
    /\ [](\A i \in Streams :
            /\ \A k \in 1..Len(dst[i].written) : dst[i].written[k][1] = "c"
            /\ \A k \in 1..Len(loc[i].written) : loc[i].written[k][1] = "s")

IgnoredFramesChangeNothingWitness ==
    /\ injected = <<[dir |-> "client", f |-> Frame("Connect", 1, <<"t">>)],
                    [dir |-> "server", f |-> Frame("Padding", 1, <<"pad">>)]>>
    /\ s2c = <<>>
    /\ c2s = <<>>
    /\ 1 \in c_streams
    /\ loc[1].written # <<>>
    /\ dst[1].written # <<>>

(***************************************************************************)
(* The SOCKS accept loop while the tunnel is away: applications keep       *)
(* connecting and writing, the tunnel drops and the server stays            *)
(* unreachable, so nobody drains the outbound frame channel.               *)
(***************************************************************************)
\* streams whose applications write enough to fill the outbound channel,
\* one tunnel loss, one outage
AcceptStall == Budget(MaxStreams, ClientTunnelCap, 0, 0, 0, 1, 1)

AcceptStallInit == SessStart /\ MuxStartFrom({AcceptStall}) /\ FramingIdle

SpecAcceptStall == AcceptStallInit /\ [][ReconnectNext]_vars /\ ReconnectFair

\* C34: the SOCKS accept loop is never blocked for good: every accepted
\* connection gets its stream id and start_new_stream returns, whether the
\* tunnel is up, slow or down.
AcceptLoopProgress == (acc.pc # "accept") ~> (acc.pc = "accept")

(***************************************************************************)
(* The end of a server-side session.  handle_connection returns and drops  *)
(* the ServerProxy and the tunnel channel's receiver; the stream tasks it  *)
(* spawned are detached and each holds a clone of the stream map.          *)
(***************************************************************************)
\* one stream with traffic both ways, closes on either side, one tunnel loss
SessionEnds == Budget(1, 1, 1, MaxCloses, 0, 1, 0)

SessionEndInit == SessStart /\ MuxStartFrom({SessionEnds}) /\ FramingIdle

SessionEndNext ==
    \/ TeardownNext
    \/ TunnelDrop
    \/ SupBreak
    \/ SupSendDead
    \/ \E i \in Streams :
          \/ ClientRecv(i)
          \/ ClientWrite(i)
          \/ SrvRead(i)
          \/ SrvSendData(i)

SessionEndFair ==
    /\ TeardownFair
    /\ WF_vars(SupBreak)
    /\ WF_vars(SupSendDead)
    /\ \A i \in Streams :
          /\ WF_vars(ClientRecv(i))
          /\ WF_vars(ClientWrite(i))
          /\ WF_vars(SrvSendData(i))

SpecSessionEnd == SessionEndInit /\ [][SessionEndNext]_vars /\ SessionEndFair

\* C35: once the server-side session of a running stream task has ended,
\* the task eventually terminates, its destination socket is closed and its
\* id is out of the stream map, whatever the destination does.
SessionEndClosesStreams ==
    \A i \in Streams :
        (ss[i].task = "run" /\ ~ServerTunnelOpen(i))
            ~> (ss[i].task = "closed" /\ dst[i].closed /\ ~ss[i].tx)

====
